---- MODULE Spec2Model ----
(***************************************************************************)
(* Model of the grid collision system of polygon-rs:                       *)
(*   src/src/component/collider/grid_collision.rs  (dispatcher, workers,   *)
(*                                                  broadphase, narrowphase)*)
(*   src/src/component/collider/mod.rs             (collider predicates)   *)
(*                                                                         *)
(* Numbers.  World coordinates are integers counted in half units, so the  *)
(* specification's sphere at (1.5, 0, 0) with radius 1 has centre          *)
(* <<3, 0, 0>> and radius 2.  The predicates of the code are polynomial    *)
(* comparisons and floor(p / cell_size), which are unchanged by a common   *)
(* scale of all lengths.                                                   *)
(*                                                                         *)
(* Size.  The source sets NUM_WORKERS = NUM_WORK_UNITS = 8, and new() can   *)
(* build 1, 2, 4 or 8 work units.  The model keeps the four tables of      *)
(* new() and runs the two-unit build with NUM_WORKERS worker threads,      *)
(* NUM_WORKERS being a bound of the model.                                 *)
(***************************************************************************)
EXTENDS Integers, Sequences, FiniteSets, TLC

(***************************************************************************)
(* Bounds of the model.                                                    *)
(***************************************************************************)
\* Worker threads spawned by new() (the source: 8).
NUM_WORKERS == 2

(***************************************************************************)
(* Program constants.                                                      *)
(***************************************************************************)
\* The source sets 8; new() also builds 1, 2 and 4 units, and the model runs
\* its two-unit build.
NUM_WORK_UNITS == 2
\* std::f32::MAX and std::f32::MIN: the largest and the most negative finite
\* value.  They are only ever compared (AABB tests), never added.
MAX == 2147483647
MIN == -2147483647
\* GridCoord = i16.
I16_MIN == -32768
I16_MAX == 32767
\* math::EPSILON is 1 / EpsDen; every quantity compared in test_obb is
\* carried multiplied by EpsDen so that the arithmetic stays integral.
EpsDen == 1000000

Workers == 1 .. NUM_WORKERS

(***************************************************************************)
(* math: points, vectors, 3x3 matrices (rows of a matrix are m[1..3]).     *)
(***************************************************************************)
Abs(x) == IF x < 0 THEN -x ELSE x

Point(x, y, z) == <<x, y, z>>

Dot(a, b) == a[1] * b[1] + a[2] * b[2] + a[3] * b[3]

Sub(a, b) == <<a[1] - b[1], a[2] - b[2], a[3] - b[3]>>

MagnitudeSquared(v) == Dot(v, v)

Col(m, c) == <<m[1][c], m[2][c], m[3][c]>>

Transpose(m) == <<Col(m, 1), Col(m, 2), Col(m, 3)>>

\* Vector3 * Matrix3.  t * orientation.transpose() is the projection of t
\* onto the box's axes, the columns of its orientation: component j of the
\* product is the dot product of v with row j of m.
VecMulMat(v, m) == <<Dot(v, m[1]), Dot(v, m[2]), Dot(v, m[3])>>

Identity3 == <<<<1, 0, 0>>, <<0, 1, 0>>, <<0, 0, 1>>>>

PointMin == Point(MIN, MIN, MIN)

PointMax == Point(MAX, MAX, MAX)

AABB(lo, hi) == [min |-> lo, max |-> hi]

\* AABB::test_aabb: every axis interval overlaps; touching counts.
TestAABB(a, b) ==
    \A i \in 1 .. 3 : a.min[i] <= b.max[i] /\ b.min[i] <= a.max[i]

(***************************************************************************)
(* Colliders (mod.rs).                                                     *)
(***************************************************************************)
\* An orientation is a rotation matrix with rational entries: the integer
\* matrix `orientation` divided by `orientation_den`.
SphereCollider(c, r) ==
    [kind |-> "Sphere", center |-> c, radius |-> r,
     orientation |-> Identity3, orientation_den |-> 1,
     half_widths |-> <<0, 0, 0>>]

BoxCollider(c, o, hw) ==
    [kind |-> "Box", center |-> c, radius |-> 0,
     orientation |-> o, orientation_den |-> 1, half_widths |-> hw]

\* A box whose orientation is the rotation o.m / o.den.
RotatedBoxCollider(c, o, hw) ==
    [kind |-> "Box", center |-> c, radius |-> 0,
     orientation |-> o.m, orientation_den |-> o.den, half_widths |-> hw]

\* The reach taken from one radius only.
SphereTestOneRadius(a, b) ==
    MagnitudeSquared(Sub(a.center, b.center)) < a.radius * a.radius

\* Tangent spheres counted as colliding.
SphereTestSphereClosed(a, b) ==
    MagnitudeSquared(Sub(a.center, b.center))
        <= (a.radius + b.radius) * (a.radius + b.radius)

\* Sphere::test_collider, the Sphere arm.
SphereTestSphere(a, b) ==
    LET dist_sqr == MagnitudeSquared(Sub(a.center, b.center))
        max_dist_sqr == (a.radius + b.radius) * (a.radius + b.radius)
    IN  dist_sqr < max_dist_sqr

\* The rows of the orientations taken as the boxes' axes.
ObbRRows(a, b) ==
    [row \in 1 .. 3 |->
        [col \in 1 .. 3 |-> Dot(a.orientation[row], b.orientation[col])]]

\* r[row][col] = a.orientation.col(row) . b.orientation.col(col), in units
\* of 1 / (a.orientation_den * b.orientation_den).
ObbR(a, b) ==
    [row \in 1 .. 3 |->
        [col \in 1 .. 3 |-> Dot(Col(a.orientation, row), Col(b.orientation, col))]]

\* The numbers test_obb compares are kept exact: the record [w, e] is the
\* number w / scale + e * EPSILON, where scale is one common denominator
\* and EPSILON is 1 / EpsDen.
Exact(h, scale) == [w |-> h * scale, e |-> 0]

Times(h, x) == [w |-> h * x.w, e |-> h * x.e]

Plus(x, y) == [w |-> x.w + y.w, e |-> x.e + y.e]

\* half_widths.dot(v) for a vector v of such numbers.
DotExact(h, v) == Plus(Plus(Times(h[1], v[1]), Times(h[2], v[2])), Times(h[3], v[3]))

\* abs_r[row][col] = |r[row][col]| + EPSILON; den is what takes r's unit
\* to the common denominator.
ObbAbsR(r, den) ==
    [row \in 1 .. 3 |-> [col \in 1 .. 3 |-> [w |-> Abs(r[row][col]) * den, e |-> 1]]]

\* The comparison without EPSILON in abs_r.
ObbSeparatedNoEpsilon(d, ra, rb, scale) == Abs(d) - (ra.w + rb.w) > 0

\* `if d.abs() > ra + rb { return false; }` for a projected centre distance
\* d / scale: d - w > e * scale / EpsDen, and the left side is an integer.
ObbSeparated(d, ra, rb, scale) ==
    Abs(d) - (ra.w + rb.w) > ((ra.e + rb.e) * scale) \div EpsDen

\* OBB::test_obb: the 15-axis separating axis test.  t is in units of
\* 1 / a.orientation_den, r in units of 1 / unit, the products of t and r
\* in units of 1 / scale.
TestObb(a, b) ==
    LET unit == a.orientation_den * b.orientation_den
        scale == a.orientation_den * unit
        r == ObbR(a, b)
        t == VecMulMat(Sub(b.center, a.center), Transpose(a.orientation))
        abs_r == ObbAbsR(r, a.orientation_den)
        ah == a.half_widths
        bh == b.half_widths
        Sep(d, ra, rb) == ObbSeparated(d, ra, rb, scale)
        Cross(h, i, x, j, y) == Plus(Times(h[i], x), Times(h[j], y))
    IN  /\ \A i \in 1 .. 3 :
              ~ Sep(t[i] * unit, Exact(ah[i], scale), DotExact(bh, abs_r[i]))
        /\ \A i \in 1 .. 3 :
              ~ Sep(Dot(t, Col(r, i)), DotExact(ah, Col(abs_r, i)), Exact(bh[i], scale))
        \* A0 x B0, A0 x B1, A0 x B2
        /\ ~ Sep(t[3] * r[2][1] - t[2] * r[3][1],
                 Cross(ah, 2, abs_r[3][1], 3, abs_r[2][1]),
                 Cross(bh, 2, abs_r[1][3], 3, abs_r[1][2]))
        /\ ~ Sep(t[3] * r[2][2] - t[2] * r[3][2],
                 Cross(ah, 2, abs_r[3][2], 3, abs_r[2][2]),
                 Cross(bh, 1, abs_r[1][3], 3, abs_r[1][1]))
        /\ ~ Sep(t[3] * r[2][3] - t[2] * r[3][3],
                 Cross(ah, 2, abs_r[3][3], 3, abs_r[2][3]),
                 Cross(bh, 1, abs_r[1][2], 2, abs_r[1][1]))
        \* A1 x B0, A1 x B1, A1 x B2
        /\ ~ Sep(t[1] * r[3][1] - t[3] * r[1][1],
                 Cross(ah, 1, abs_r[3][1], 3, abs_r[1][1]),
                 Cross(bh, 2, abs_r[2][3], 3, abs_r[2][2]))
        /\ ~ Sep(t[1] * r[3][2] - t[3] * r[1][2],
                 Cross(ah, 1, abs_r[3][2], 3, abs_r[1][2]),
                 Cross(bh, 1, abs_r[2][3], 3, abs_r[2][1]))
        /\ ~ Sep(t[1] * r[3][3] - t[3] * r[1][3],
                 Cross(ah, 1, abs_r[3][3], 3, abs_r[1][3]),
                 Cross(bh, 1, abs_r[2][2], 2, abs_r[2][1]))
        \* A2 x B0, A2 x B1, A2 x B2
        /\ ~ Sep(t[2] * r[1][1] - t[1] * r[2][1],
                 Cross(ah, 1, abs_r[2][1], 2, abs_r[1][1]),
                 Cross(bh, 2, abs_r[3][3], 3, abs_r[3][2]))
        /\ ~ Sep(t[2] * r[1][2] - t[1] * r[2][2],
                 Cross(ah, 1, abs_r[2][2], 2, abs_r[1][2]),
                 Cross(bh, 1, abs_r[3][3], 3, abs_r[3][1]))
        /\ ~ Sep(t[2] * r[1][3] - t[1] * r[2][3],
                 Cross(ah, 1, abs_r[2][3], 2, abs_r[1][3]),
                 Cross(bh, 1, abs_r[3][2], 2, abs_r[3][1]))

\* CachedCollider::test / Sphere::test_collider / OBB::test_collider:
\* Sphere-Box, Box-Sphere and Mesh are unimplemented!().
Supported(a, b) ==
    \/ a.kind = "Sphere" /\ b.kind = "Sphere"
    \/ a.kind = "Box" /\ b.kind = "Box"

ColliderTest(a, b) ==
    IF a.kind = "Sphere" THEN SphereTestSphere(a, b) ELSE TestObb(a, b)

\* BoundVolume::test: the exact predicate on the two cached colliders.
BoundVolumeTest(v, w) == ColliderTest(v.collider, w.collider)

(***************************************************************************)
(* Work units (grid_collision.rs).                                         *)
(***************************************************************************)
\* WorkUnit::new: no collisions, an empty grid, cell_size 1.0 (2 half units).
\* The four TimeMark fields are written and printed only; they are left out.
WorkUnitNew(bounds) ==
    [bounds |-> bounds, collisions |-> {}, grid |-> <<>>, cell_size |-> 2]

\* GridCollisionSystem::new: the bounds pushed for NUM_WORK_UNITS = 1, 2, 4, 8.
UnitBounds(n) ==
    CASE n = 1 -> << AABB(Point(MIN, MIN, MIN), Point(0, 0, 0)) >>
      [] n = 2 -> << AABB(PointMin, Point(0, MAX, MAX)),
                     AABB(Point(0, MIN, MIN), PointMax) >>
      [] n = 4 -> << AABB(PointMin, Point(0, 0, MAX)),
                     AABB(Point(MIN, 0, MIN), Point(0, MAX, MAX)),
                     AABB(Point(0, MIN, MIN), Point(MAX, 0, MAX)),
                     AABB(Point(0, 0, MIN), PointMax) >>
      [] n = 8 -> << AABB(Point(MIN, MIN, MIN), Point(0, 0, 0)),
                     AABB(Point(MIN, MIN, 0), Point(0, 0, MAX)),
                     AABB(Point(MIN, 0, MIN), Point(0, MAX, 0)),
                     AABB(Point(MIN, 0, 0), Point(0, MAX, MAX)),
                     AABB(Point(0, MIN, MIN), Point(MAX, 0, 0)),
                     AABB(Point(0, MIN, 0), Point(MAX, 0, MAX)),
                     AABB(Point(0, 0, MIN), Point(MAX, MAX, 0)),
                     AABB(Point(0, 0, 0), Point(MAX, MAX, MAX)) >>

NewProcessedWork ==
    [i \in 1 .. NUM_WORK_UNITS |-> WorkUnitNew(UnitBounds(NUM_WORK_UNITS)[i])]

\* The work units in the order new() creates them; a unit keeps its bounds
\* for life, so the bounds name the unit.
UnitIds == 1 .. NUM_WORK_UNITS

UnitId(unit) == CHOOSE i \in UnitIds : UnitBounds(NUM_WORK_UNITS)[i] = unit.bounds

(***************************************************************************)
(* Snapshots: the BoundVolume lists handed to update.                      *)
(***************************************************************************)
BoundVolume(e, aabb, collider) == [entity |-> e, aabb |-> aabb, collider |-> collider]

\* E1 and E2 are the two spheres of the specification's scenario.
VolE1 == BoundVolume(1, AABB(Point(-2, -2, -2), Point(2, 2, 2)),
                     SphereCollider(Point(0, 0, 0), 2))
VolE2 == BoundVolume(2, AABB(Point(1, -2, -2), Point(5, 2, 2)),
                     SphereCollider(Point(3, 0, 0), 2))
\* A sphere tangent to E1 (distance 4 = 2 + 2) that overlaps E2.
VolE3 == BoundVolume(3, AABB(Point(2, -2, -2), Point(6, 2, 2)),
                     SphereCollider(Point(4, 0, 0), 2))
\* Two overlapping boxes; the first touches the plane x = 0 and shares grid
\* cells with E1 on both sides of it.
VolE4 == BoundVolume(4, AABB(Point(-2, -1, -1), Point(0, 1, 1)),
                     BoxCollider(Point(-1, 0, 0), Identity3, <<1, 1, 1>>))
VolE5 == BoundVolume(5, AABB(Point(-3, -1, -1), Point(-1, 1, 1)),
                     BoxCollider(Point(-2, 0, 0), Identity3, <<1, 1, 1>>))
\* A small sphere that shares no grid cell with E1.
VolE6 == BoundVolume(6, AABB(Point(3, 3, 5), Point(5, 5, 7)),
                     SphereCollider(Point(4, 4, 6), 1))

\* A sphere that overlaps E1 and, like E1, lies on both sides of x = 0.
VolE7 == BoundVolume(7, AABB(Point(-2, 1, -2), Point(2, 5, 2)),
                     SphereCollider(Point(0, 3, 0), 2))

\* A box inside E2's cells, on the positive side of x = 0 only.
VolE8 == BoundVolume(8, AABB(Point(2, -1, -1), Point(4, 1, 1)),
                     BoxCollider(Point(3, 0, 0), Identity3, <<1, 1, 1>>))

\* The lists update is called with.  No entity occurs twice in a list.
Snapshots ==
    { <<>>,
      <<VolE1, VolE2>>,          \* the specification's scenario
      <<VolE2, VolE1>>,          \* the same, listed the other way round
      <<VolE1, VolE3>>,          \* tangent spheres sharing grid cells
      <<VolE7, VolE1>>,          \* a colliding pair seen by both units
      <<VolE1, VolE6>>,          \* two spheres that share no grid cell
      <<VolE4, VolE5>>,          \* colliding boxes
      <<VolE1, VolE4>>,          \* a sphere and a box in common cells
      <<VolE2, VolE8>>,          \* the same, but in one unit only
      <<VolE1, VolE2, VolE3>> }  \* two hits and one tangent pair

(***************************************************************************)
(* f32 arithmetic.  A value is a significand of MantissaBits bits times a  *)
(* power of two; the result of an operation is the value of that form      *)
(* nearest to the exact result, ties going to the even significand.  The   *)
(* exponent range is not limited.                                          *)
(***************************************************************************)
\* Width of the significand (the source's f32: 24).
MantissaBits == 4

\* floor(log2(n / d)) for n > 0, d > 0.
RECURSIVE Exponent(_, _)
Exponent(n, d) ==
    IF n >= 2 * d THEN Exponent(n, 2 * d) + 1
    ELSE IF n < d THEN Exponent(2 * n, d) - 1
    ELSE 0

\* The integer nearest x / y (y > 0), ties to even.
RoundHalfEven(x, y) ==
    LET m   == x \div y
        rem == x - m * y
    IN  IF 2 * rem < y THEN m
        ELSE IF 2 * rem > y THEN m + 1
        ELSE IF m % 2 = 0 THEN m ELSE m + 1

\* The f32 nearest a / b (b > 0), as significand m and exponent e: m * 2^e.
F32Round(a, b) ==
    IF a = 0 THEN [m |-> 0, e |-> 0]
    ELSE LET e == Exponent(Abs(a), b) - MantissaBits + 1
         IN  [m |-> IF e >= 0 THEN RoundHalfEven(a, b * 2 ^ e)
                    ELSE RoundHalfEven(a * 2 ^ (0 - e), b),
              e |-> e]

\* f32::floor.
Floor(f) == IF f.e >= 0 THEN f.m * 2 ^ f.e ELSE f.m \div 2 ^ (0 - f.e)

\* x - y on f32 operands holding integers; the result is an integer again.
F32Sub(x, y) == Floor(F32Round(x - y, 1))

\* x / y on f32 operands holding integers, y > 0.
F32Div(x, y) == F32Round(x, y)

(***************************************************************************)
(* Broadphase (Worker::do_broadphase).  A *const BoundVolume is the index  *)
(* of the volume in the shared list.                                       *)
(***************************************************************************)
GridCell(x, y, z) == <<x, y, z>>

\* f32 -> i16 cast of an integral value.
AsGridCoord(v) == IF v < I16_MIN THEN I16_MIN ELSE IF v > I16_MAX THEN I16_MAX ELSE v

\* WorkUnit::world_to_grid: (point / cell_size).floor() per axis.
WorldToGrid(work, point) ==
    GridCell(AsGridCoord(Floor(F32Div(point[1], work.cell_size))),
             AsGridCoord(Floor(F32Div(point[2], work.cell_size))),
             AsGridCoord(Floor(F32Div(point[3], work.cell_size))))

\* The two corner cells only.
TouchedCellsCorners(min, max) == IF min = max THEN <<min>> ELSE <<min, max>>

\* The cells do_broadphase hands to test_cell for one volume, in call order.
TouchedCells(min, max) ==
    LET overlap_x == min[1] < max[1]
        overlap_y == min[2] < max[2]
        overlap_z == min[3] < max[3]
    IN  <<min>> \o
        (IF overlap_x
         THEN <<GridCell(max[1], min[2], min[3])>> \o
              (IF overlap_y
               THEN <<GridCell(min[1], max[2], min[3]),
                      GridCell(max[1], max[2], min[3])>> \o
                    (IF overlap_z
                     THEN <<GridCell(min[1], min[2], max[3]),
                            GridCell(min[1], max[2], max[3]),
                            GridCell(max[1], min[2], max[3]),
                            GridCell(max[1], max[2], max[3])>>
                     ELSE <<>>)
               ELSE IF overlap_z
               THEN <<GridCell(min[1], min[2], max[3]),
                      GridCell(max[1], min[2], max[3])>>
               ELSE <<>>)
         ELSE IF overlap_y
         THEN <<GridCell(min[1], max[2], min[3])>> \o
              (IF overlap_z
               THEN <<GridCell(min[1], min[2], max[3]),
                      GridCell(min[1], max[2], max[3])>>
               ELSE <<>>)
         ELSE IF overlap_z
         THEN <<GridCell(min[1], min[2], max[3])>>
         ELSE <<>>)

\* The pair with the volume already in the cell first.
CandidatePairSwapped(bvh, other_bvh) == <<other_bvh, bvh>>

\* The candidate pair pushed for the volume being placed and one already in
\* the cell.
CandidatePair(bvh, other_bvh) == <<bvh, other_bvh>>

\* A pair with the first volume of the cell only.
CellCandidatesFirst(bvh, cell) ==
    IF cell = <<>> THEN <<>> ELSE <<CandidatePair(bvh, cell[1])>>

\* The pairs test_cell pushes: the volume with every volume in the cell.
CellCandidates(bvh, cell) == [k \in 1 .. Len(cell) |-> CandidatePair(bvh, cell[k])]

\* The cell test_cell works on: the entry of the grid, or for a cell not yet
\* in the grid a vector popped from the cache, or else a new one.
CellEntry(st, grid_cell) ==
    IF grid_cell \in DOMAIN st.grid THEN st.grid[grid_cell]
    ELSE IF st.cell_cache # <<>> THEN st.cell_cache[Len(st.cell_cache)]
    ELSE <<>>

\* The closure test_cell.  st = [grid, candidate_collisions, cell_cache].
\* Here and below a value that is used several times is bound as the one
\* element of a set, so that TLC computes it once.
TestCell(st, bvh, grid_cell) ==
    CHOOSE r \in
        {[grid |-> (c :> Append(cell, bvh)) @@ s.grid,
          candidate_collisions |->
              s.candidate_collisions \o CellCandidates(bvh, cell),
          cell_cache |-> IF c \notin DOMAIN s.grid /\ s.cell_cache # <<>>
                         THEN SubSeq(s.cell_cache, 1, Len(s.cell_cache) - 1)
                         ELSE s.cell_cache] :
            s \in {st}, c \in {grid_cell}, cell \in {CellEntry(st, grid_cell)}} : TRUE

\* The calls of test_cell for one volume, from the k-th on.
RECURSIVE TestCells(_, _, _, _)
TestCells(st, bvh, cells, k) ==
    IF k > Len(cells) THEN st
    ELSE CHOOSE r \in {TestCells(next, bvh, cells, k + 1) :
                           next \in {TestCell(st, bvh, cells[k])}} : TRUE

\* No volume skipped.
SkippedNever(bvh, unit) == FALSE

\* The volume does not reach into the unit's bounds and is passed over.
Skipped(bvh, unit) == ~ TestAABB(bvh.aabb, unit.bounds)

\* The loop over the volumes, from volume i on.
RECURSIVE BroadphaseLoop(_, _, _, _)
BroadphaseLoop(st, work, volumes, i) ==
    IF i > Len(volumes) THEN st
    ELSE IF Skipped(volumes[i], work)
    THEN BroadphaseLoop(st, work, volumes, i + 1)
    ELSE CHOOSE r \in
             {BroadphaseLoop(TestCells(st, i, TouchedCells(min, max), 1),
                             work, volumes, i + 1) :
                 min \in {WorldToGrid(work, volumes[i].aabb.min)},
                 max \in {WorldToGrid(work, volumes[i].aabb.max)}} : TRUE

\* The bucket goes to the cache as it is.
ClearCellSkipped(cell) == cell

\* cell.clear()
ClearCell(cell) == <<>>

\* The cells of a grid under the keys given, in some order (HashMap::drain).
RECURSIVE DrainOrder(_, _)
DrainOrder(grid, keys) ==
    IF keys = {} THEN <<>>
    ELSE CHOOSE r \in {<<ClearCell(grid[c])>> \o DrainOrder(grid, rest) :
                           c \in {CHOOSE key \in keys : TRUE},
                           rest \in {keys \ {CHOOSE key \in keys : TRUE}}} : TRUE

\* do_broadphase on a work unit against the shared volumes: the grid after
\* the final drain, the worker's candidate list and its cell cache.
DoBroadphase(work, candidate_collisions, cell_cache, volumes) ==
    CHOOSE r \in
        {[grid |-> <<>>,
          candidate_collisions |-> st.candidate_collisions,
          cell_cache |-> st.cell_cache \o DrainOrder(st.grid, DOMAIN st.grid)] :
            st \in {BroadphaseLoop([grid |-> work.grid,
                                     candidate_collisions |-> candidate_collisions,
                                     cell_cache |-> cell_cache],
                                    work, volumes, 1)}} : TRUE

(***************************************************************************)
(* Narrowphase (Worker::do_narrowphase).                                   *)
(***************************************************************************)
\* The pair inserted whatever the test says.
InsertAlways(collisions, collision_pair, hit) == collisions \cup {collision_pair}

\* The Vacant arm of the match: the pair is inserted when the test succeeds.
InsertOnHit(collisions, collision_pair, hit) ==
    IF hit THEN collisions \cup {collision_pair} ELSE collisions

\* The pair never counts as detected.
AlreadyDetectedNever(collisions, collision_pair) == FALSE

\* work.collisions.entry(collision_pair) is not Vacant.
AlreadyDetected(collisions, collision_pair) == collision_pair \in collisions

\* The loop over the drained candidates from candidate k on.  The result is
\* the collisions map of the unit, whether bvh.test() panicked
\* (unimplemented!() for a Sphere-Box pair), and the candidates bvh.test()
\* was called on, in call order.
RECURSIVE NarrowphaseLoop(_, _, _, _)
NarrowphaseLoop(collisions, candidates, volumes, k) ==
    IF k > Len(candidates)
    THEN [collisions |-> collisions, panicked |-> FALSE, tested |-> <<>>]
    ELSE LET bvh == volumes[candidates[k][1]]
             other_bvh == volumes[candidates[k][2]]
             collision_pair == <<bvh.entity, other_bvh.entity>>
         IN  IF AlreadyDetected(collisions, collision_pair)
             THEN NarrowphaseLoop(collisions, candidates, volumes, k + 1)
             ELSE IF ~ Supported(bvh.collider, other_bvh.collider)
             THEN [collisions |-> collisions, panicked |-> TRUE,
                   tested |-> <<candidates[k]>>]
             ELSE CHOOSE r \in
                      {[rest EXCEPT !.tested = <<candidates[k]>> \o rest.tested] :
                          rest \in {NarrowphaseLoop(
                                        InsertOnHit(collisions, collision_pair,
                                                    BoundVolumeTest(bvh, other_bvh)),
                                        candidates, volumes, k + 1)}} :
                      TRUE

DoNarrowphase(work, candidate_collisions, volumes) ==
    NarrowphaseLoop(work.collisions, candidate_collisions, volumes, 1)

(***************************************************************************)
(* State.                                                                  *)
(***************************************************************************)
VARIABLES
    bvh,                  \* update's argument bvh_manager.components()
    disp_pc,              \* where the dispatcher thread is
    processed_work,       \* GridCollisionSystem.processed_work
    collisions,           \* GridCollisionSystem.collisions
    volumes,              \* ThreadData.volumes, the data behind the RwLock
    rw_writer,            \* the RwLock is write-locked
    rw_readers,           \* the workers holding the RwLock for reading
    pending,              \* ThreadData.pending.0, the data behind the Mutex
    mutex,                \* who holds the Mutex: "free", "dispatcher", "worker"
    channel,              \* the units buffered in the sync_channel
    wpc,                  \* where each worker thread is
    work,                 \* the unit a worker owns: <<>> or <<unit>>
    candidate_collisions, \* Worker.candidate_collisions
    cell_cache,           \* Worker.cell_cache
    stat,                 \* per unit: what happened to it in the current update
    callbacks,            \* CollisionCallbackManager.callbacks
    entity_callbacks,     \* CollisionCallbackManager.entity_callbacks
    invoked,              \* the invoke calls of the last process_collisions
    arg,                  \* the arguments of a call of a function on its own
    ret                   \* what that call returned

vars == <<bvh, disp_pc, processed_work, collisions, volumes, rw_writer,
          rw_readers, pending, mutex, channel, wpc, work,
          candidate_collisions, cell_cache, stat,
          callbacks, entity_callbacks, invoked, arg, ret>>

grid_vars == <<bvh, disp_pc, processed_work, collisions, volumes, rw_writer,
               rw_readers, pending, mutex, channel, wpc, work,
               candidate_collisions, cell_cache, stat>>

callback_vars == <<callbacks, entity_callbacks, invoked>>

call_vars == <<arg, ret>>

disp_vars == <<bvh, disp_pc, processed_work, collisions>>

worker_vars == <<wpc, work, candidate_collisions, cell_cache>>

NoStat == [popped |-> 0, broadphase |-> 0, narrowphase |-> 0, sent |-> 0, merged |-> 0]

Bump(u, field) == [stat EXCEPT ![UnitId(u)][field] = @ + 1]

\* new(): the units are idle with the dispatcher, the threads are spawned
\* and every worker is about to lock the pending queue.
GridInit ==
    /\ bvh = <<>>
    /\ disp_pc = "idle"
    /\ processed_work = NewProcessedWork
    /\ collisions = {}
    /\ volumes = <<>>
    /\ rw_writer = FALSE
    /\ rw_readers = {}
    /\ pending = <<>>
    /\ mutex = "free"
    /\ channel = <<>>
    /\ wpc = [w \in Workers |-> "lock"]
    /\ work = [w \in Workers |-> <<>>]
    /\ candidate_collisions = [w \in Workers |-> <<>>]
    /\ cell_cache = [w \in Workers |-> <<>>]
    /\ stat = [u \in UnitIds |-> NoStat]

\* CollisionCallbackManager::new()
CallbackInit ==
    /\ callbacks = <<>>
    /\ entity_callbacks = <<>>
    /\ invoked = <<>>

Init ==
    /\ GridInit
    /\ CallbackInit
    /\ arg = [op |-> "none"]
    /\ ret = <<>>

(***************************************************************************)
(* The dispatcher: GridCollisionSystem::update.                            *)
(***************************************************************************)
\* The assertion left out.
WorkUnitCountUnchecked(pw) == TRUE

\* The assertion at the top of update.
WorkUnitCountOk(pw) == Len(pw) = NUM_WORK_UNITS

Max2(a, b) == IF b > a THEN b ELSE a

\* The loop with the x side only.
RECURSIVE LongestOfX(_, _, _)
LongestOfX(components, i, longest) ==
    IF i > Len(components) THEN longest
    ELSE LongestOfX(components, i + 1,
                    Max2(longest, F32Sub(components[i].aabb.max[1],
                                         components[i].aabb.min[1])))

\* The loop that finds the longest AABB side of the snapshot.
RECURSIVE Longest(_, _, _)
Longest(components, i, longest) ==
    IF i > Len(components) THEN longest
    ELSE LET aabb == components[i].aabb
             diff_x == F32Sub(aabb.max[1], aabb.min[1])
             diff_y == F32Sub(aabb.max[2], aabb.min[2])
             diff_z == F32Sub(aabb.max[3], aabb.min[3])
         IN  CHOOSE r \in
                 {Longest(components, i + 1, next) :
                     next \in {Max2(Max2(Max2(longest, diff_x), diff_y), diff_z)}} :
                 TRUE

\* update up to the point where it asks for the write lock: clear the
\* result, check the assertion, give every idle unit the new cell_size.
UpdateBegin(s) ==
    /\ disp_pc \in {"idle", "returned"}
    /\ bvh' = s
    /\ collisions' = {}
    /\ IF ~ WorkUnitCountOk(processed_work)
       THEN /\ disp_pc' = "panicked"
            /\ UNCHANGED <<processed_work, stat>>
       ELSE /\ processed_work' =
                   CHOOSE pw \in
                       {[i \in 1 .. Len(processed_work) |->
                            [processed_work[i] EXCEPT !.cell_size = longest]] :
                           longest \in {Longest(s, 1, 0)}} : TRUE
            /\ stat' = [u \in UnitIds |-> NoStat]
            /\ disp_pc' = "write_lock"
    /\ UNCHANGED <<volumes, rw_writer, rw_readers, pending, mutex, channel>>
    /\ UNCHANGED worker_vars

\* thread_data.volumes.write()
AcquireWrite ==
    /\ disp_pc = "write_lock"
    /\ ~ rw_writer /\ rw_readers = {}
    /\ rw_writer' = TRUE
    /\ disp_pc' = "clone"
    /\ UNCHANGED <<bvh, processed_work, collisions, volumes, rw_readers, pending,
                   mutex, channel, stat>>
    /\ UNCHANGED worker_vars

\* The shared list is left as the tick before wrote it.
CloneFromSkipped ==
    /\ disp_pc = "clone"
    /\ disp_pc' = "lock_pending"
    /\ UNCHANGED <<bvh, processed_work, collisions, volumes, rw_writer, rw_readers,
                   pending, mutex, channel, stat>>
    /\ UNCHANGED worker_vars

\* volumes.clone_from(bvh_manager.components())
CloneFrom ==
    /\ disp_pc = "clone"
    /\ volumes' = bvh
    /\ disp_pc' = "lock_pending"
    /\ UNCHANGED <<bvh, processed_work, collisions, rw_writer, rw_readers, pending,
                   mutex, channel, stat>>
    /\ UNCHANGED worker_vars

\* pending.lock()
LockPending ==
    /\ disp_pc = "lock_pending"
    /\ mutex = "free"
    /\ mutex' = "dispatcher"
    /\ disp_pc' = "swap"
    /\ UNCHANGED <<bvh, processed_work, collisions, volumes, rw_writer, rw_readers,
                   pending, channel, stat>>
    /\ UNCHANGED worker_vars

\* A copy where the swap should be: the units stay in the idle list too.
MemSwapCopy(a, b) == <<b, b>>

\* mem::swap(a, b): the new values of a and b.
MemSwap(a, b) == <<b, a>>

\* The swap, then the end of the block drops both guards.
SwapPending ==
    /\ disp_pc = "swap"
    /\ pending' = MemSwap(pending, processed_work)[1]
    /\ processed_work' = MemSwap(pending, processed_work)[2]
    /\ mutex' = "free"
    /\ rw_writer' = FALSE
    /\ disp_pc' = "notify"
    /\ UNCHANGED <<bvh, collisions, volumes, rw_readers, channel, stat>>
    /\ UNCHANGED worker_vars

\* A notify that wakes nobody.
NotifiedNobody(pc) == pc

\* What notify_all does to one worker: a worker blocked in wait() goes on
\* to take the mutex again.
Notified(pc) == IF pc = "waiting" THEN "lock" ELSE pc

\* condvar.notify_all()
NotifyAll ==
    /\ disp_pc = "notify"
    /\ wpc' = [w \in Workers |-> Notified(wpc[w])]
    /\ disp_pc' = "recv"
    /\ UNCHANGED <<bvh, processed_work, collisions, volumes, rw_writer, rw_readers,
                   pending, mutex, channel, work, candidate_collisions, cell_cache, stat>>

\* The loop stops one unit early.
StillWaitingOffByOne(pw) == Len(pw) < NUM_WORK_UNITS - 1

\* The condition of the loop that collects the units.
StillWaiting(pw) == Len(pw) < NUM_WORK_UNITS

\* The total replaced by the unit's collisions instead of extended by them.
MergeOverwrite(total, unit_collisions) == unit_collisions

\* Every pair also inserted the other way round.
MergeBothWays(total, unit_collisions) ==
    total \cup unit_collisions \cup {<<c[2], c[1]>> : c \in unit_collisions}

\* Merging the drained collisions of a returned unit into the total.
Merge(total, unit_collisions) == total \cup unit_collisions

\* The unit goes back to the idle list with its hits.
DrainCollisionsKept(work_unit) == work_unit

\* work_unit.collisions.drain() leaves the unit's set empty.
DrainCollisions(work_unit) == [work_unit EXCEPT !.collisions = {}]

\* One turn of the loop: recv() a unit, merge what it found, keep the unit.
RecvUnit ==
    /\ disp_pc = "recv"
    /\ StillWaiting(processed_work)
    /\ channel # <<>>
    /\ LET work_unit == Head(channel)
       IN  /\ collisions' = Merge(collisions, work_unit.collisions)
           /\ processed_work' = Append(processed_work, DrainCollisions(work_unit))
           /\ stat' = Bump(work_unit, "merged")
    /\ channel' = Tail(channel)
    /\ UNCHANGED <<bvh, disp_pc, volumes, rw_writer, rw_readers, pending, mutex>>
    /\ UNCHANGED worker_vars

\* recv() on an empty channel whose senders are all gone is an Err, and
\* unwrap() panics the dispatcher thread.
RecvDisconnected ==
    /\ disp_pc = "recv"
    /\ StillWaiting(processed_work)
    /\ channel = <<>>
    /\ \A w \in Workers : wpc[w] = "dead"
    /\ disp_pc' = "panicked"
    /\ UNCHANGED <<bvh, processed_work, collisions, volumes, rw_writer, rw_readers,
                   pending, mutex, channel, stat>>
    /\ UNCHANGED worker_vars

\* The loop ends and update returns.
UpdateReturn ==
    /\ disp_pc = "recv"
    /\ ~ StillWaiting(processed_work)
    /\ disp_pc' = "returned"
    /\ bvh' = <<>>
    /\ UNCHANGED <<processed_work, collisions, volumes, rw_writer, rw_readers,
                   pending, mutex, channel, stat>>
    /\ UNCHANGED worker_vars

(***************************************************************************)
(* The workers: Worker::start.                                             *)
(***************************************************************************)
\* pending.lock(), and the re-lock when wait() returns.
WorkerLock(w) ==
    /\ wpc[w] = "lock"
    /\ mutex = "free"
    /\ mutex' = "worker"
    /\ wpc' = [wpc EXCEPT ![w] = "locked"]
    /\ UNCHANGED <<pending, channel, work, candidate_collisions, cell_cache, stat,
                   volumes, rw_writer, rw_readers>>
    /\ UNCHANGED disp_vars

\* pending.len() == 0: condvar.wait() gives the mutex up and blocks.
WorkerWait(w) ==
    /\ wpc[w] = "locked"
    /\ Len(pending) = 0
    /\ mutex' = "free"
    /\ wpc' = [wpc EXCEPT ![w] = "waiting"]
    /\ UNCHANGED <<pending, channel, work, candidate_collisions, cell_cache, stat,
                   volumes, rw_writer, rw_readers>>
    /\ UNCHANGED disp_vars

\* A condition variable may wake a waiter that nobody notified.
WorkerSpuriousWake(w) ==
    /\ wpc[w] = "waiting"
    /\ wpc' = [wpc EXCEPT ![w] = "lock"]
    /\ UNCHANGED <<pending, mutex, channel, work, candidate_collisions, cell_cache,
                   stat, volumes, rw_writer, rw_readers>>
    /\ UNCHANGED disp_vars

\* The unit is taken and stays in the queue.
PopNone(q) == q

\* The queue after pending.pop().
PopLast(q) == SubSeq(q, 1, Len(q) - 1)

\* pending.pop().unwrap(), and the guard is dropped.
WorkerPop(w) ==
    /\ wpc[w] = "locked"
    /\ Len(pending) # 0
    /\ work' = [work EXCEPT ![w] = <<pending[Len(pending)]>>]
    /\ pending' = PopLast(pending)
    /\ mutex' = "free"
    /\ wpc' = [wpc EXCEPT ![w] = "received"]
    /\ stat' = Bump(pending[Len(pending)], "popped")
    /\ UNCHANGED <<channel, candidate_collisions, cell_cache, volumes, rw_writer,
                   rw_readers>>
    /\ UNCHANGED disp_vars

\* The list read without a guard.
ReadGuardNone(readers, w) == readers

\* The readers of the RwLock once w holds a read guard.
ReadGuard(readers, w) == readers \cup {w}

\* do_broadphase: thread_data.volumes.read()
BroadphaseBegin(w) ==
    /\ wpc[w] = "received"
    /\ ~ rw_writer
    /\ rw_readers' = ReadGuard(rw_readers, w)
    /\ wpc' = [wpc EXCEPT ![w] = "broadphase"]
    /\ UNCHANGED <<pending, mutex, channel, work, candidate_collisions, cell_cache,
                   stat, volumes, rw_writer>>
    /\ UNCHANGED disp_vars

\* do_broadphase: the body, and the read guard is dropped on return.
BroadphaseEnd(w) ==
    /\ wpc[w] = "broadphase"
    /\ \E r \in {DoBroadphase(work[w][1], candidate_collisions[w], cell_cache[w],
                               volumes)} :
           /\ work' = [work EXCEPT ![w] = <<[work[w][1] EXCEPT !.grid = r.grid]>>]
           /\ candidate_collisions' =
                  [candidate_collisions EXCEPT ![w] = r.candidate_collisions]
           /\ cell_cache' = [cell_cache EXCEPT ![w] = r.cell_cache]
    /\ rw_readers' = rw_readers \ {w}
    /\ wpc' = [wpc EXCEPT ![w] = "narrowphase"]
    /\ stat' = Bump(work[w][1], "broadphase")
    /\ UNCHANGED <<pending, mutex, channel, volumes, rw_writer>>
    /\ UNCHANGED disp_vars

\* The buffer keeps what was in it.
DrainCandidatesKept(candidates) == candidates

\* self.candidate_collisions.drain(0..) leaves the worker's buffer empty.
DrainCandidates(candidates) == <<>>

\* do_narrowphase.  The candidates are raw pointers into the shared list and
\* are read without a lock.  unimplemented!() unwinds the worker thread: its
\* unit, its candidates and its sender are dropped.
Narrowphase(w) ==
    /\ wpc[w] = "narrowphase"
    /\ \E r \in {DoNarrowphase(work[w][1], candidate_collisions[w], volumes)} :
           IF r.panicked
           THEN /\ wpc' = [wpc EXCEPT ![w] = "dead"]
                /\ work' = [work EXCEPT ![w] = <<>>]
                /\ cell_cache' = [cell_cache EXCEPT ![w] = <<>>]
                /\ UNCHANGED stat
           ELSE /\ wpc' = [wpc EXCEPT ![w] = "send"]
                /\ work' = [work EXCEPT ![w] = <<[work[w][1] EXCEPT !.collisions = r.collisions]>>]
                /\ stat' = Bump(work[w][1], "narrowphase")
                /\ UNCHANGED cell_cache
    /\ candidate_collisions' =
           [candidate_collisions EXCEPT ![w] = DrainCandidates(candidate_collisions[w])]
    /\ UNCHANGED <<pending, mutex, channel, volumes, rw_writer, rw_readers>>
    /\ UNCHANGED disp_vars

\* A buffer with room for one unit less than there are units.
ChannelBoundTooSmall == NUM_WORK_UNITS - 1

\* mpsc::sync_channel(NUM_WORKERS): the number of units the channel buffers.
ChannelBound == NUM_WORKERS

\* channel.send(work): blocks while the buffer is full.
WorkerSend(w) ==
    /\ wpc[w] = "send"
    /\ Len(channel) < ChannelBound
    /\ channel' = Append(channel, work[w][1])
    /\ work' = [work EXCEPT ![w] = <<>>]
    /\ wpc' = [wpc EXCEPT ![w] = "lock"]
    /\ stat' = Bump(work[w][1], "sent")
    /\ UNCHANGED <<pending, mutex, candidate_collisions, cell_cache, volumes,
                   rw_writer, rw_readers>>
    /\ UNCHANGED disp_vars

(***************************************************************************)
(* Specifications.                                                         *)
(***************************************************************************)
\* A panic of the dispatcher (the main thread) ends the process.
DispatcherStep ==
    /\ UNCHANGED <<callback_vars, call_vars>>
    /\ \/ AcquireWrite
       \/ CloneFrom
       \/ LockPending
       \/ SwapPending
       \/ NotifyAll
       \/ RecvUnit
       \/ RecvDisconnected
       \/ UpdateReturn

WorkerStep(w) ==
    /\ disp_pc # "panicked"
    /\ UNCHANGED <<callback_vars, call_vars>>
    /\ \/ WorkerLock(w)
       \/ WorkerWait(w)
       \/ WorkerPop(w)
       \/ BroadphaseBegin(w)
       \/ BroadphaseEnd(w)
       \/ Narrowphase(w)
       \/ WorkerSend(w)

Next ==
    \/ \E s \in Snapshots : UpdateBegin(s) /\ UNCHANGED <<callback_vars, call_vars>>
    \/ DispatcherStep
    \/ \E w \in Workers : WorkerStep(w)
    \/ \E w \in Workers :
          /\ disp_pc # "panicked"
          /\ WorkerSpuriousWake(w)
          /\ UNCHANGED <<callback_vars, call_vars>>

Spec == Init /\ [][Next]_vars

\* The threads are scheduled fairly: a thread whose next step is possible
\* again and again takes it, which includes getting a lock that others keep
\* taking and releasing.  Nobody has to call update again, and a spurious
\* wake-up need never happen.
FairSpec ==
    /\ Spec
    /\ SF_vars(DispatcherStep)
    /\ \A w \in Workers : SF_vars(WorkerStep(w))

\* Fault injection: update is called on a system whose idle list has lost
\* units (the last k of them), which no run from new() produces.
InjectInit ==
    /\ bvh = <<>>
    /\ disp_pc = "idle"
    /\ processed_work \in {SubSeq(NewProcessedWork, 1, k) : k \in 0 .. NUM_WORK_UNITS}
    /\ collisions = {}
    /\ volumes = <<>>
    /\ rw_writer = FALSE
    /\ rw_readers = {}
    /\ pending = <<>>
    /\ mutex = "free"
    /\ channel = <<>>
    /\ wpc = [w \in Workers |-> "lock"]
    /\ work = [w \in Workers |-> <<>>]
    /\ candidate_collisions = [w \in Workers |-> <<>>]
    /\ cell_cache = [w \in Workers |-> <<>>]
    /\ stat = [u \in UnitIds |-> NoStat]
    /\ callbacks = <<>>
    /\ entity_callbacks = <<>>
    /\ invoked = <<>>
    /\ arg = [op |-> "none"]
    /\ ret = <<>>

SpecInject == InjectInit /\ [][Next]_vars

(***************************************************************************)
(* CollisionCallbackManager (mod.rs).  A callback is the value handed to   *)
(* register: its CallbackId (the type id of T) and which register call     *)
(* brought it.  invoke() is recorded, not run.                             *)
(***************************************************************************)
\* register calls made on one manager.
MaxRegistrations == 3

CallbackIds == {"H", "G"}

CallbackEntities == {1, 2, 3}

\* The sets process_collisions is called with, each in the orders a HashSet
\* may iterate it.
CollisionOrders ==
    { <<>>,
      << <<1, 2>> >>,
      << <<2, 1>> >>,
      << <<1, 2>>, <<3, 1>> >>,
      << <<3, 1>>, <<1, 2>> >> }

\* entity_callbacks.get(&entity): the list, or none.
CallbackIdsOf(map, entity) == IF entity \in DOMAIN map THEN map[entity] ELSE <<>>

\* The register calls made so far: each appended one id to one list.
RECURSIVE SumLen(_, _)
SumLen(map, entities) ==
    IF entities = {} THEN 0
    ELSE CHOOSE n \in {Len(CallbackIdsOf(map, e)) + SumLen(map, entities \ {e}) :
                          e \in {CHOOSE x \in entities : TRUE}} : TRUE

Registrations == SumLen(entity_callbacks, CallbackEntities)

\* The callback stored whatever is there already.
InsertCallbackAlways(map, callback_id, callback) ==
    [id \in DOMAIN map \cup {callback_id} |->
        IF id = callback_id THEN callback ELSE map[id]]

\* if !self.callbacks.contains_key(&callback_id) { insert }
InsertCallback(map, callback_id, callback) ==
    IF callback_id \in DOMAIN map THEN map
    ELSE (callback_id :> callback) @@ map

\* An id that is in the list already is not pushed again.
PushCallbackIdOnce(map, entity, callback_id) ==
    IF entity \in DOMAIN map
    THEN IF \E k \in 1 .. Len(map[entity]) : map[entity][k] = callback_id
         THEN map
         ELSE [map EXCEPT ![entity] = Append(@, callback_id)]
    ELSE (entity :> <<callback_id>>) @@ map

\* The second half of register: push to the entity's list, or start one.
PushCallbackId(map, entity, callback_id) ==
    IF entity \in DOMAIN map
    THEN [map EXCEPT ![entity] = Append(@, callback_id)]
    ELSE (entity :> <<callback_id>>) @@ map

\* callback.invoke(scene, first, second), as a record of the call.
Invoke(callback, first, second) ==
    [callback |-> callback, first |-> first, second |-> second]

\* The second entity's handlers called like the first's.
InvokeAllSameArguments(stored, map, first, second) ==
    [k \in 1 .. Len(CallbackIdsOf(map, first)) |->
        Invoke(stored[CallbackIdsOf(map, first)[k]],
               IF first < second THEN first ELSE second,
               IF first < second THEN second ELSE first)]

\* The ids of a list up to the first one that is not stored:
\* self.callbacks.get_mut(callback_id).unwrap() panics there.
Unwrapped(stored, callback_ids) ==
    CHOOSE n \in 0 .. Len(callback_ids) :
        /\ \A k \in 1 .. n : callback_ids[k] \in DOMAIN stored
        /\ n < Len(callback_ids) => callback_ids[n + 1] \notin DOMAIN stored

\* The lookup fails for one of the entity's ids.
LookupPanics(stored, map, entity) ==
    Unwrapped(stored, CallbackIdsOf(map, entity)) < Len(CallbackIdsOf(map, entity))

\* One of the two loops over callback_ids in process_collisions.
InvokeAll(stored, map, first, second) ==
    [k \in 1 .. Unwrapped(stored, CallbackIdsOf(map, first)) |->
        Invoke(stored[CallbackIdsOf(map, first)[k]], first, second)]

\* Only the first entity of the pair is served.
ProcessPairFirstOnly(stored, map, pair) ==
    [pair |-> pair, calls |-> InvokeAll(stored, map, pair[1], pair[2])]

\* The body of the loop over the pairs.
ProcessPair(stored, map, pair) ==
    [pair |-> pair,
     calls |-> InvokeAll(stored, map, pair[1], pair[2])
                  \o (IF LookupPanics(stored, map, pair[1]) THEN <<>>
                      ELSE InvokeAll(stored, map, pair[2], pair[1]))]

\* The body of the loop panics on this pair.
PairPanics(stored, map, pair) ==
    LookupPanics(stored, map, pair[1]) \/ LookupPanics(stored, map, pair[2])

\* The pairs the loop gets to: all of them, or those up to the one it
\* panics on.
PairsReached(stored, map, order) ==
    CHOOSE n \in 0 .. Len(order) :
        /\ \A k \in 1 .. n - 1 : ~ PairPanics(stored, map, order[k])
        /\ n < Len(order) => (n > 0 /\ PairPanics(stored, map, order[n]))

\* register(entity, callback) for a callback of type callback_id.
Register(entity, callback_id) ==
    /\ ret = <<>>
    /\ Registrations < MaxRegistrations
    /\ \E callback \in {[id |-> callback_id, call |-> Registrations + 1]} :
          /\ callbacks' = InsertCallback(callbacks, callback_id, callback)
          /\ arg' = [op |-> "register", entity |-> entity, callback |-> callback]
    /\ entity_callbacks' = PushCallbackId(entity_callbacks, entity, callback_id)
    /\ invoked' = <<>>
    /\ UNCHANGED <<grid_vars, ret>>

\* process_collisions(scene, collisions), the set iterated in the order given.
\* invoked is the record of this call only.
\* A failed lookup unwinds the caller: ret records the panic and the
\* manager is not used again.
ProcessCollisions(order) ==
    /\ ret = <<>>
    /\ invoked' = [k \in 1 .. PairsReached(callbacks, entity_callbacks, order) |->
                      ProcessPair(callbacks, entity_callbacks, order[k])]
    /\ arg' = [op |-> "process_collisions", collisions |-> order]
    /\ ret' = IF \E k \in 1 .. Len(order) :
                     PairPanics(callbacks, entity_callbacks, order[k])
              THEN <<"panic">>
              ELSE <<>>
    /\ UNCHANGED <<grid_vars, callbacks, entity_callbacks>>

CallbackNext ==
    \/ \E entity \in CallbackEntities, callback_id \in CallbackIds :
          Register(entity, callback_id)
    \/ \E order \in CollisionOrders : ProcessCollisions(order)

\* A manager from new(), registered to and dispatched on.
CallbackSpec == Init /\ [][CallbackNext]_vars

\* Clone for CollisionCallbackManager; the clone is the manager used from
\* here on.
Clone ==
    /\ ret = <<>>
    /\ arg.op # "clone"
    /\ callbacks' = <<>>
    /\ entity_callbacks' = entity_callbacks
    /\ invoked' = <<>>
    /\ arg' = [op |-> "clone"]
    /\ UNCHANGED <<grid_vars, ret>>

CloneNext == CallbackNext \/ Clone

\* A manager reached from new() through register and clone, dispatched on.
CloneSpec == Init /\ [][CloneNext]_vars

(***************************************************************************)
(* The exact predicates as pure functions (mod.rs): a pair of cached       *)
(* colliders is drawn, test is called on it, then on the swapped pair,     *)
(* then on the first pair again.                                           *)
(***************************************************************************)
GeoSpheres ==
    {SphereCollider(Point(x, y, 0), r) : x \in {-3, 0, 4}, y \in {0, 4}, r \in {1, 2, 3}}

\* Rotations with rational entries: the identity, a quarter turn about z,
\* the 3-4-5 turns about z and about x, and the product of these two.
GeoOrientations ==
    { [m |-> Identity3, den |-> 1],
      [m |-> <<<<0, -1, 0>>, <<1, 0, 0>>, <<0, 0, 1>>>>, den |-> 1],
      [m |-> <<<<3, -4, 0>>, <<4, 3, 0>>, <<0, 0, 5>>>>, den |-> 5],
      [m |-> <<<<5, 0, 0>>, <<0, 3, -4>>, <<0, 4, 3>>>>, den |-> 5],
      [m |-> <<<<15, -12, 16>>, <<20, 9, -12>>, <<0, 20, 15>>>>, den |-> 25] }

GeoHalfWidths == {<<1, 1, 1>>, <<1, 2, 3>>, <<3, 1, 1>>}

GeoBoxes ==
    {RotatedBoxCollider(Point(x, y, z), o, hw) :
        x \in {-2, 0, 3}, y \in {0, 3}, z \in {0, 1},
        o \in GeoOrientations, hw \in GeoHalfWidths}

\* Axis-aligned boxes so large that EPSILON times their half widths is of
\* the size of a lattice step.
GeoLargeBoxes ==
    {BoxCollider(Point(x, 0, 0), Identity3, <<h, h, h>>) :
        x \in {0, 2000001, 2000003, 2000004}, h \in {1000000}}

GeoInputs ==
    (GeoSpheres \X GeoSpheres) \cup (GeoBoxes \X GeoBoxes)
        \cup (GeoLargeBoxes \X GeoLargeBoxes)

GeometryInit ==
    /\ GridInit
    /\ CallbackInit
    /\ arg \in {[op |-> "test", a |-> in[1], b |-> in[2]] : in \in GeoInputs}
    /\ ret = <<>>

\* self.test(other)
CallTest ==
    /\ arg.op = "test"
    /\ ret = <<>>
    /\ ret' = <<ColliderTest(arg.a, arg.b)>>
    /\ UNCHANGED <<grid_vars, callback_vars, arg>>

\* other.test(self)
CallTestSwapped ==
    /\ arg.op = "test"
    /\ Len(ret) = 1
    /\ ret' = Append(ret, ColliderTest(arg.b, arg.a))
    /\ UNCHANGED <<grid_vars, callback_vars, arg>>

\* self.test(other), once more
CallTestAgain ==
    /\ arg.op = "test"
    /\ Len(ret) = 2
    /\ ret' = Append(ret, ColliderTest(arg.a, arg.b))
    /\ UNCHANGED <<grid_vars, callback_vars, arg>>

GeometryNext == CallTest \/ CallTestSwapped \/ CallTestAgain

GeometrySpec == GeometryInit /\ [][GeometryNext]_vars

(***************************************************************************)
(* The bounds tables of new() as a function of the unit count: a point of  *)
(* world space is drawn and looked up in the units of one table the way    *)
(* do_broadphase decides whether a unit takes a volume.                    *)
(***************************************************************************)
SupportedUnitCounts == {1, 2, 4, 8}

TilingCoords == {MIN, -1, 0, 1, MAX}

TilingPoints == {Point(x, y, z) : x \in TilingCoords, y \in TilingCoords, z \in TilingCoords}

\* The units whose bounds pass aabb.test_aabb(&work.bounds) for the AABB
\* that is the point alone.
UnitsContaining(bounds, point) ==
    {i \in 1 .. Len(bounds) : TestAABB(AABB(point, point), bounds[i])}

TilingInit ==
    /\ GridInit
    /\ CallbackInit
    /\ arg \in {[op |-> "locate", n |-> n, point |-> p] :
                   n \in SupportedUnitCounts, p \in TilingPoints}
    /\ ret = <<>>

LocatePoint ==
    /\ arg.op = "locate"
    /\ ret = <<>>
    /\ ret' = <<UnitsContaining(UnitBounds(arg.n), arg.point)>>
    /\ UNCHANGED <<grid_vars, callback_vars, arg>>

TilingNext == LocatePoint

TilingSpec == TilingInit /\ [][TilingNext]_vars

(***************************************************************************)
(* One update followed unit by unit: update hands out the units, and each  *)
(* unit in turn goes through do_broadphase and do_narrowphase and is       *)
(* merged.  The grid is recorded as the loop of do_broadphase leaves it,   *)
(* before the final drain.                                                 *)
(***************************************************************************)
\* Boxes whose AABBs are not cubes: the longest side is y for the first
\* and z for the second.
VolE9 == BoundVolume(9, AABB(Point(-1, -1, -1), Point(1, 5, 1)),
                     BoxCollider(Point(0, 2, 0), Identity3, <<1, 3, 1>>))
VolE10 == BoundVolume(10, AABB(Point(3, -1, -3), Point(5, 1, 5)),
                      BoxCollider(Point(4, 0, 1), Identity3, <<1, 1, 4>>))
\* Spheres that share one, two and eight grid cells with E1.
VolE11 == BoundVolume(11, AABB(Point(1, 1, 1), Point(3, 3, 3)),
                      SphereCollider(Point(2, 2, 2), 1))
VolE12 == BoundVolume(12, AABB(Point(1, 1, -1), Point(3, 3, 1)),
                      SphereCollider(Point(2, 2, 0), 1))
VolE13 == BoundVolume(13, AABB(Point(-3, -3, -3), Point(1, 1, 1)),
                      SphereCollider(Point(-1, -1, -1), 2))
\* A box of half width 32 about x = 30: every number is an f32 of
\* MantissaBits bits, and so is the AABB, whose upper corner 30 + 32 is
\* rounded to 64.  The second box lies inside the first.
VolE14 == BoundVolume(14, AABB(Point(-2, 0, 0), Point(64, 8, 8)),
                      BoxCollider(Point(30, 4, 4), Identity3, <<32, 4, 4>>))
VolE15 == BoundVolume(15, AABB(Point(8, 0, 0), Point(16, 8, 8)),
                      BoxCollider(Point(12, 4, 4), Identity3, <<4, 4, 4>>))
\* Volumes without extent: a sphere of radius 0 and a box of half widths 0.
VolE16 == BoundVolume(16, AABB(Point(1, 1, 1), Point(1, 1, 1)),
                      SphereCollider(Point(1, 1, 1), 0))
VolE17 == BoundVolume(17, AABB(Point(-1, -1, -1), Point(-1, -1, -1)),
                      BoxCollider(Point(-1, -1, -1), Identity3, <<0, 0, 0>>))

TickSnapshots ==
    Snapshots \cup
    { <<VolE16>>,
      <<VolE17, VolE16>>,
      <<VolE9>>,
      <<VolE9, VolE10>>,
      <<VolE10, VolE9, VolE4>>,
      <<VolE1, VolE11>>,
      <<VolE12, VolE1>>,
      <<VolE1, VolE13>>,
      <<VolE13, VolE1, VolE12, VolE11>>,
      <<VolE1, VolE6, VolE2, VolE7>>,
      <<VolE14, VolE15>>,
      <<VolE15, VolE14>> }

TickInit ==
    /\ GridInit
    /\ CallbackInit
    /\ arg \in {[op |-> "tick", n |-> n, volumes |-> s] :
                   n \in SupportedUnitCounts, s \in TickSnapshots}
    /\ ret = <<>>

\* update up to notify_all: the n units of new(), each with the cell_size
\* of this snapshot.
TickUpdate ==
    /\ arg.op = "tick"
    /\ ret = <<>>
    /\ ret' = [pc |-> "broadphase",
               unit |-> 1,
               work |-> [i \in 1 .. arg.n |->
                            [WorkUnitNew(UnitBounds(arg.n)[i])
                                EXCEPT !.cell_size = Longest(arg.volumes, 1, 0)]],
               grid |-> <<>>,
               candidate_collisions |-> <<>>,
               drained |-> <<>>,
               tested |-> <<>>,
               hits |-> <<>>,
               collisions |-> {},
               cast |-> <<>>]
    /\ UNCHANGED <<grid_vars, callback_vars, arg>>

\* What `as GridCoord` can give for a quotient that is infinite or NaN: the
\* cast is undefined for such a value in the Rust this code was written for
\* and saturates (NaN to 0) in Rust from 1.45 on.
NonFiniteCasts == {I16_MIN, 0, I16_MAX}

\* world_to_grid is called on a unit whose cell_size is 0.
DividesByZero(unit, s) ==
    /\ unit.cell_size = 0
    /\ \E i \in 1 .. Len(s) : ~ Skipped(s[i], unit)

\* do_broadphase on the next unit.  With cell_size = 0 the quotient
\* point / cell_size of the first volume placed is infinite or NaN; the
\* value its cast gives is recorded and the unit is not followed further.
TickBroadphase ==
    /\ arg.op = "tick"
    /\ ret # <<>>
    /\ ret.pc = "broadphase"
    /\ IF DividesByZero(ret.work[ret.unit], arg.volumes)
       THEN \E cast \in NonFiniteCasts :
                ret' = [ret EXCEPT !.pc = "divided_by_zero", !.cast = <<cast>>]
       ELSE \E st \in {BroadphaseLoop([grid |-> <<>>, candidate_collisions |-> <<>>,
                                       cell_cache |-> <<>>],
                                      ret.work[ret.unit], arg.volumes, 1)} :
                ret' = [ret EXCEPT
                           !.pc = "narrowphase",
                           !.grid = st.grid,
                           !.candidate_collisions =
                               DoBroadphase(ret.work[ret.unit], <<>>, <<>>,
                                            arg.volumes).candidate_collisions]
    /\ UNCHANGED <<grid_vars, callback_vars, arg>>

\* do_narrowphase on that unit, and the merge of its hits by update.  The
\* candidates it drained and those it called bvh.test() on are kept per unit.
TickNarrowphase ==
    /\ arg.op = "tick"
    /\ ret # <<>>
    /\ ret.pc = "narrowphase"
    /\ \E r \in {DoNarrowphase(ret.work[ret.unit], ret.candidate_collisions,
                               arg.volumes)} :
           ret' = IF r.panicked
                  THEN [ret EXCEPT !.pc = "panicked"]
                  ELSE [ret EXCEPT
                           !.pc = IF ret.unit = arg.n THEN "returned" ELSE "broadphase",
                           !.unit = IF ret.unit = arg.n THEN ret.unit ELSE ret.unit + 1,
                           !.grid = <<>>,
                           !.candidate_collisions = <<>>,
                           !.drained = Append(ret.drained, ret.candidate_collisions),
                           !.tested = Append(ret.tested, r.tested),
                           !.hits = Append(ret.hits, r.collisions),
                           !.collisions = Merge(ret.collisions, r.collisions)]
    /\ UNCHANGED <<grid_vars, callback_vars, arg>>

TickNext == TickUpdate \/ TickBroadphase \/ TickNarrowphase

TickSpec == TickInit /\ [][TickNext]_vars

(***************************************************************************)
(* The tick with its TimeMark fields.  Two runs of update on the same      *)
(* snapshot are stepped together, the units going through one worker in    *)
(* the order pending.pop() gives.  Run a reads 0 from every timer.now();   *)
(* run b reads any value of Readings.                                         *)
(***************************************************************************)
\* The values timer.now() returns.
Readings == {0, 1}

TimedUnitCounts == {1, 2}

\* The four TimeMark fields of a WorkUnit, in declaration order.
TimeMarks == [received_time : Readings, broadphase_time : Readings,
              narrowphase_time : Readings, returned_time : Readings]

\* WorkUnit::new with its four timer.now() readings.
TimedWorkUnitNew(bounds, marks) ==
    [bounds |-> bounds, collisions |-> {}, grid |-> <<>>, cell_size |-> 2,
     received_time |-> marks.received_time,
     broadphase_time |-> marks.broadphase_time,
     narrowphase_time |-> marks.narrowphase_time,
     returned_time |-> marks.returned_time]

\* The reading is added to the unit's cell_size as well.
ReceivedInCellSize(unit, now) ==
    [unit EXCEPT !.received_time = now, !.cell_size = @ + now]

\* work.received_time = timer.now()
Received(unit, now) == [unit EXCEPT !.received_time = now]

\* update up to notify_all for units built with the readings marks[i]:
\* cell_size is assigned and all units are pending.
TimedStart(n, s, marks) ==
    [pc |-> "pop",
     unit |-> 0,
     work |-> [i \in 1 .. n |->
                  [TimedWorkUnitNew(UnitBounds(n)[i], marks[i])
                      EXCEPT !.cell_size = Longest(s, 1, 0)]],
     pending |-> [i \in 1 .. n |-> i],
     candidate_collisions |-> <<>>,
     processed_work |-> <<>>,
     collisions |-> {},
     handoffs |-> <<>>]

\* Worker::start, the block under the mutex and the first reading: the last
\* pending unit is taken.
TimedPop(run, now) ==
    [run EXCEPT !.pc = "broadphase",
                !.unit = run.pending[Len(run.pending)],
                !.pending = PopLast(run.pending),
                !.work[run.pending[Len(run.pending)]] = Received(@, now),
                !.handoffs = Append(@, <<"pop", run.pending[Len(run.pending)]>>)]

\* do_broadphase and the second reading.
TimedBroadphase(run, s, now) ==
    IF DividesByZero(run.work[run.unit], s)
    THEN [run EXCEPT !.pc = "divided_by_zero"]
    ELSE [run EXCEPT
             !.pc = "narrowphase",
             !.candidate_collisions =
                 DoBroadphase(run.work[run.unit], <<>>, <<>>, s).candidate_collisions,
             !.work[run.unit].broadphase_time = now]

\* do_narrowphase, the third reading and the send.  A panic in bvh.test()
\* ends the worker before either.
TimedNarrowphase(run, s, now) ==
    IF DoNarrowphase(run.work[run.unit], run.candidate_collisions, s).panicked
    THEN [run EXCEPT !.pc = "panicked"]
    ELSE [run EXCEPT
             !.pc = "recv",
             !.candidate_collisions = DrainCandidates(@),
             !.work[run.unit].collisions =
                 DoNarrowphase(run.work[run.unit], run.candidate_collisions,
                               s).collisions,
             !.work[run.unit].narrowphase_time = now,
             !.handoffs = Append(@, <<"send", run.unit>>)]

\* One round of the loop of update: recv, the fourth reading, the merge and
\* the push to processed_work.
TimedRecv(run, now) ==
    [run EXCEPT
        !.pc = IF run.pending = <<>> THEN "returned" ELSE "pop",
        !.work[run.unit].returned_time = now,
        !.work[run.unit].collisions = {},
        !.collisions = Merge(@, run.work[run.unit].collisions),
        !.processed_work = Append(@, run.unit),
        !.handoffs = Append(@, <<"recv", run.unit>>)]

\* The step a run takes from where it is.
TimedStep(run, s, now) ==
    CASE run.pc = "pop" -> TimedPop(run, now)
      [] run.pc = "broadphase" -> TimedBroadphase(run, s, now)
      [] run.pc = "narrowphase" -> TimedNarrowphase(run, s, now)
      [] run.pc = "recv" -> TimedRecv(run, now)
      [] OTHER -> run

TimedInit ==
    /\ GridInit
    /\ CallbackInit
    /\ arg \in {[op |-> "timed", n |-> n, volumes |-> s] :
                   n \in TimedUnitCounts, s \in Snapshots}
    /\ ret = <<>>

TimedUpdate ==
    /\ arg.op = "timed"
    /\ ret = <<>>
    /\ \E marks \in [1 .. arg.n -> TimeMarks] :
           ret' = [a |-> TimedStart(arg.n, arg.volumes,
                                    [i \in 1 .. arg.n |->
                                        [received_time |-> 0, broadphase_time |-> 0,
                                         narrowphase_time |-> 0, returned_time |-> 0]]),
                   b |-> TimedStart(arg.n, arg.volumes, marks)]
    /\ UNCHANGED <<grid_vars, callback_vars, arg>>

\* Run a takes the step at pc with the reading 0, run b its own step with
\* any reading.
TimedAt(pc) ==
    /\ arg.op = "timed"
    /\ ret # <<>>
    /\ ret.a.pc = pc
    /\ \E now \in Readings :
           ret' = [a |-> TimedStep(ret.a, arg.volumes, 0),
                   b |-> TimedStep(ret.b, arg.volumes, now)]
    /\ UNCHANGED <<grid_vars, callback_vars, arg>>

TimedWorkerPop == TimedAt("pop")

TimedWorkerBroadphase == TimedAt("broadphase")

TimedWorkerNarrowphase == TimedAt("narrowphase")

TimedRecvUnit == TimedAt("recv")

TimedNext ==
    \/ TimedUpdate
    \/ TimedWorkerPop
    \/ TimedWorkerBroadphase
    \/ TimedWorkerNarrowphase
    \/ TimedRecvUnit

TimedSpec == TimedInit /\ [][TimedNext]_vars

(***************************************************************************)
(* The cells do_broadphase visits for one volume, as a function of the     *)
(* volume's min and max grid cells.                                        *)
(***************************************************************************)
\* Every pair of a min cell about the origin and a max cell 0, 1 or 2 cells
\* further on each axis.
CellRanges ==
    {[min |-> GridCell(x, y, z), max |-> GridCell(x + dx, y + dy, z + dz)] :
        x \in {-1, 0}, y \in {-1, 0}, z \in {-1, 0},
        dx \in {0, 1, 2}, dy \in {0, 1, 2}, dz \in {0, 1, 2}}

CellsInit ==
    /\ GridInit
    /\ CallbackInit
    /\ arg \in {[op |-> "cells", min |-> r.min, max |-> r.max] : r \in CellRanges}
    /\ ret = <<>>

\* The calls of test_cell for volume 1 on an empty grid: the cells in call
\* order and the grid they leave.
VisitCells ==
    /\ arg.op = "cells"
    /\ ret = <<>>
    /\ ret' = [cells |-> TouchedCells(arg.min, arg.max),
               grid |-> TestCells([grid |-> <<>>, candidate_collisions |-> <<>>,
                                   cell_cache |-> <<>>],
                                  1, TouchedCells(arg.min, arg.max), 1).grid]
    /\ UNCHANGED <<grid_vars, callback_vars, arg>>

CellsNext == VisitCells

CellsSpec == CellsInit /\ [][CellsNext]_vars

(***************************************************************************)
(* Properties.                                                             *)
(***************************************************************************)
\* Where a unit can be, and how often unit u is found there.
Holders(u) == {w \in Workers : work[w] # <<>> /\ UnitId(work[w][1]) = u}

InSeq(q, u) == {i \in 1 .. Len(q) : UnitId(q[i]) = u}

Occurrences(u) ==
    Cardinality(InSeq(processed_work, u)) + Cardinality(InSeq(pending, u))
        + Cardinality(InSeq(channel, u)) + Cardinality(Holders(u))

\* A work unit as update hands it out for snapshot s.
UnitFor(u, s) ==
    [WorkUnitNew(UnitBounds(NUM_WORK_UNITS)[u]) EXCEPT !.cell_size = Longest(s, 1, 0)]

\* The candidate list broadphase builds for unit u from snapshot s.
CandidatesFor(u, s) == DoBroadphase(UnitFor(u, s), <<>>, <<>>, s).candidate_collisions

\* Every candidate pair of snapshot s is Sphere-Sphere or Box-Box.
CandidatesSupported(s) ==
    \A u \in UnitIds :
        \A k \in 1 .. Len(CandidatesFor(u, s)) :
            Supported(s[CandidatesFor(u, s)[k][1]].collider,
                      s[CandidatesFor(u, s)[k][2]].collider)

\* What one unit alone finds in snapshot s, and the union over the units.
HitsFor(u, s) == DoNarrowphase(UnitFor(u, s), CandidatesFor(u, s), s).collisions

ExpectedCollisions(s) == UNION {HitsFor(u, s) : u \in UnitIds}

\* C1: in every state every work unit is in exactly one place (idle list,
\* pending queue, one worker, return channel); none is lost or duplicated.
C1_UnitsConserved == \A u \in UnitIds : Occurrences(u) = 1

\* Around C1: no unit is ever in two places, and none is missing as long as
\* no worker thread has panicked.
UnitsConservedWhileNoPanic ==
    \A u \in UnitIds :
        /\ Occurrences(u) <= 1
        /\ (\A w \in Workers : wpc[w] # "dead") => Occurrences(u) = 1

\* C2: within one update every unit goes through pop, broadphase,
\* narrowphase, send and merge in this order and at most once, and when
\* update has returned each of them has happened exactly once for every
\* unit, the idle list holds all N units and the pending queue and the
\* channel are empty.
C2_ReturnsAfterAllUnits ==
    /\ \A u \in UnitIds :
          /\ stat[u].merged <= stat[u].sent
          /\ stat[u].sent <= stat[u].narrowphase
          /\ stat[u].narrowphase <= stat[u].broadphase
          /\ stat[u].broadphase <= stat[u].popped
          /\ stat[u].popped <= 1
    /\ disp_pc = "returned" =>
          /\ \A u \in UnitIds :
                /\ stat[u] = [popped |-> 1, broadphase |-> 1, narrowphase |-> 1,
                              sent |-> 1, merged |-> 1]
                /\ Cardinality(InSeq(processed_work, u)) = 1
          /\ Len(processed_work) = NUM_WORK_UNITS
          /\ pending = <<>>
          /\ channel = <<>>

C2_Witness ==
    /\ disp_pc = "returned"
    /\ collisions # {}
    /\ \A u \in UnitIds : stat[u].merged = 1

C4_ResultDeterminedBySnapshot ==
    disp_pc = "returned" => collisions = ExpectedCollisions(volumes)

\* update has returned hits, and the unit created first came back first.
C4_Witness ==
    /\ disp_pc = "returned"
    /\ collisions # {}
    /\ UnitId(processed_work[1]) = 1
    /\ \E u \in UnitIds : HitsFor(u, volumes) # ExpectedCollisions(volumes)

\* C5: while the dispatcher holds the write lock on the snapshot all N units
\* are in its idle list: no worker owns a unit, reads the snapshot or holds
\* pointers into it.
C5_NoWriteWhileUnitsOut ==
    rw_writer =>
        /\ Len(processed_work) = NUM_WORK_UNITS
        /\ rw_readers = {}
        /\ \A w \in Workers :
              /\ work[w] = <<>>
              /\ candidate_collisions[w] = <<>>
              /\ wpc[w] \in {"lock", "locked", "waiting", "dead"}

\* The dispatcher writes a snapshot after an earlier update has been served by
\* the workers.
C5_Witness ==
    /\ disp_pc = "lock_pending"
    /\ rw_writer
    /\ volumes # <<>>
    /\ \E w \in Workers : cell_cache[w] # <<>>

\* C6: the set never holds a pair together with its mirror image.
C6_NoMirroredPair == \A c \in collisions : <<c[2], c[1]>> \notin collisions

\* A pair already merged from one unit comes back in a second unit.
C6_Witness ==
    /\ channel # <<>>
    /\ Head(channel).collisions \cap collisions # {}

\* C7: every pair of the set names two different volumes of the current
\* snapshot whose colliders pass the exact test.
C7_HitsAreCollisions ==
    \A c \in collisions :
        \E i, j \in DOMAIN volumes :
            /\ i # j
            /\ volumes[i].entity = c[1]
            /\ volumes[j].entity = c[2]
            /\ Supported(volumes[i].collider, volumes[j].collider)
            /\ ColliderTest(volumes[i].collider, volumes[j].collider)

\* update returns the empty set for two tangent spheres that were candidates.
C7_Witness ==
    /\ disp_pc = "returned"
    /\ volumes = <<VolE1, VolE3>>
    /\ collisions = {}
    /\ \E u \in UnitIds : CandidatesFor(u, volumes) # <<>>

C9_AssertionFailsFirst ==
    [][(disp_pc \in {"idle", "returned"} /\ Len(processed_work) # NUM_WORK_UNITS
          /\ disp_pc' # disp_pc)
        => (disp_pc' = "panicked"
              /\ UNCHANGED <<processed_work, volumes, rw_writer, pending, mutex,
                             channel, wpc, work>>)]_vars

C9_Witness ==
    /\ disp_pc = "panicked"
    /\ Len(processed_work) < NUM_WORK_UNITS
    /\ pending = <<>>
    /\ volumes = <<>>

\* C10: whenever update can be entered the idle list holds exactly N units,
\* and the dispatcher never fails the assertion.
C10_AssertionNeverFails ==
    /\ disp_pc \in {"idle", "returned"} => Len(processed_work) = NUM_WORK_UNITS
    /\ disp_pc = "panicked" => \A w \in Workers : wpc[w] = "dead"

\* An update has returned and the next one can be entered.
C10_Witness ==
    /\ disp_pc = "returned"
    /\ \A w \in Workers : cell_cache[w] # <<>>

\* C11: a worker that reaches unimplemented!() in narrowphase brings the
\* whole process down: once a worker has failed, the dispatcher does not
\* stay in its receive loop but ends too.
C11_PanicIsFatal ==
    (\E w \in Workers : wpc[w] = "dead") ~> (disp_pc = "panicked")

\* Around C11: what the code does instead.  The failed worker's unit never
\* comes back, so an update in which a worker failed never returns.
UpdateWithDeadWorkerNeverReturns ==
    (\E w \in Workers : wpc[w] = "dead") => disp_pc \in {"notify", "recv", "panicked"}

\* The number of invoke calls in a record of process_collisions.
RECURSIVE CountCalls(_, _)
CountCalls(log, k) ==
    IF k > Len(log) THEN 0
    ELSE CHOOSE n \in {Len(log[k].calls) + rest : rest \in {CountCalls(log, k + 1)}} : TRUE

\* The sum over the pairs of the lengths of the two entities' lists.
RECURSIVE CountHandlers(_, _)
CountHandlers(pairs, k) ==
    IF k > Len(pairs) THEN 0
    ELSE CHOOSE n \in
             {Len(CallbackIdsOf(entity_callbacks, pairs[k][1]))
                + Len(CallbackIdsOf(entity_callbacks, pairs[k][2])) + rest :
                 rest \in {CountHandlers(pairs, k + 1)}} : TRUE

\* C12: process_collisions serves the pairs one after the other; for a pair
\* (a, b) it calls a's handlers in list order with (a, b), then b's
\* handlers in list order with (b, a), and nothing else.
C12_DispatchOrder ==
    arg.op = "process_collisions" =>
        /\ Len(invoked) = Len(arg.collisions)
        /\ \A k \in 1 .. Len(invoked) :
              LET a == arg.collisions[k][1]
                  b == arg.collisions[k][2]
                  la == CallbackIdsOf(entity_callbacks, a)
                  lb == CallbackIdsOf(entity_callbacks, b)
                  calls == invoked[k].calls
              IN  /\ invoked[k].pair = <<a, b>>
                  /\ Len(calls) = Len(la) + Len(lb)
                  /\ \A i \in 1 .. Len(la) :
                        calls[i] = [callback |-> callbacks[la[i]],
                                    first |-> a, second |-> b]
                  /\ \A i \in 1 .. Len(lb) :
                        calls[Len(la) + i] = [callback |-> callbacks[lb[i]],
                                              first |-> b, second |-> a]

\* A pair whose two entities have one handler each is dispatched while a
\* third entity has a handler too.
C12_Witness ==
    /\ arg.op = "process_collisions"
    /\ invoked # <<>>
    /\ Len(invoked[1].calls) = 2
    /\ invoked[1].calls[1].first # invoked[1].calls[2].first
    /\ \E e \in DOMAIN entity_callbacks :
          e \notin {invoked[1].pair[1], invoked[1].pair[2]}

\* C13: with H registered once to E1 and once to E2 and the single pair of
\* E1 and E2, one process_collisions makes exactly two calls, both of H, one
\* with (E1, E2) and one with (E2, E1); in general it makes as many calls as
\* the lists of the pairs' entities are long together.
C13_HandlerOfBothCalledTwice ==
    arg.op = "process_collisions" =>
        /\ CountCalls(invoked, 1) = CountHandlers(arg.collisions, 1)
        /\ (/\ entity_callbacks = (1 :> <<"H">>) @@ (2 :> <<"H">>)
            /\ arg.collisions \in {<< <<1, 2>> >>, << <<2, 1>> >>})
           => /\ Len(invoked) = 1
              /\ Len(invoked[1].calls) = 2
              /\ {<<c.first, c.second>> :
                     c \in {invoked[1].calls[1], invoked[1].calls[2]}}
                   = {<<1, 2>>, <<2, 1>>}
              /\ \A i \in 1 .. 2 : invoked[1].calls[i].callback = callbacks["H"]

C13_Witness ==
    /\ arg.op = "process_collisions"
    /\ entity_callbacks = (1 :> <<"H">>) @@ (2 :> <<"H">>)
    /\ arg.collisions = << <<2, 1>> >>
    /\ Len(invoked[1].calls) = 2

\* C14: a register call never replaces a stored callback; it stores the
\* callback it was given only when none of the same id is stored, so the
\* table holds, per id, the callback of the first register call for that id.
C14_FirstInstanceKept ==
    [][\A id \in DOMAIN callbacks' :
          IF id \in DOMAIN callbacks
          THEN callbacks'[id] = callbacks[id]
          ELSE /\ arg'.op = "register"
               /\ callbacks'[id] = arg'.callback
               /\ arg'.callback.id = id]_vars

\* The same id was registered for two entities; the first callback is kept.
C14_Witness ==
    /\ arg.op = "register"
    /\ arg.callback.call = 3
    /\ callbacks[arg.callback.id].call = 1
    /\ Cardinality(DOMAIN entity_callbacks) >= 2

C16_SphereIffCloserThanRadii ==
    (arg.op = "test" /\ arg.a.kind = "Sphere" /\ Len(ret) >= 1) =>
        LET c1 == arg.a.center
            c2 == arg.b.center
            reach == arg.a.radius + arg.b.radius
            dist_sqr == (c1[1] - c2[1]) * (c1[1] - c2[1])
                          + (c1[2] - c2[2]) * (c1[2] - c2[2])
                          + (c1[3] - c2[3]) * (c1[3] - c2[3])
        IN  /\ ret[1] <=> dist_sqr < reach * reach
            /\ dist_sqr = reach * reach => ret[1] = FALSE

\* Two spheres of radii 2 and 3 whose centres are 5 apart (3 along x, 4
\* along y) were tested, with the result FALSE.
C16_Witness ==
    /\ arg.op = "test"
    /\ arg.a = SphereCollider(Point(-3, 0, 0), 2)
    /\ arg.b = SphereCollider(Point(0, 4, 0), 3)
    /\ ret = <<FALSE>>

\* C17: on two boxes, whatever their centres, half widths and orientations,
\* test(a, b) and test(b, a) give the same answer.
C17_ObbSymmetric ==
    (arg.op = "test" /\ arg.a.kind = "Box" /\ Len(ret) >= 2) => ret[1] = ret[2]

\* Two boxes turned differently, neither axis-aligned, with unequal half
\* widths, were tested both ways round and found apart.
C17_Witness ==
    /\ arg.op = "test"
    /\ arg.a.kind = "Box"
    /\ arg.a.orientation_den = 25
    /\ arg.b.orientation_den = 5
    /\ arg.a.half_widths = <<1, 2, 3>>
    /\ arg.b.half_widths = <<3, 1, 1>>
    /\ ret = <<FALSE, FALSE>>

\* Both boxes of the call are axis-aligned.
AxisAligned ==
    /\ arg.op = "test"
    /\ arg.a.kind = "Box"
    /\ \A c \in {arg.a, arg.b} : c.orientation = Identity3 /\ c.orientation_den = 1

\* The distance between the extents of the two boxes on world axis i:
\* positive when they are apart, 0 when they touch.
Gap(i) == Abs(arg.b.center[i] - arg.a.center[i])
              - (arg.a.half_widths[i] + arg.b.half_widths[i])

SumOf(v) == v[1] + v[2] + v[3]

Min2(x, y) == IF x < y THEN x ELSE y

\* C18 as stated: axis-aligned boxes with a positive gap on some world axis
\* test FALSE, boxes of identical centre and size test TRUE.
C18_AnyGapSeparates ==
    (AxisAligned /\ Len(ret) >= 1) =>
        /\ (\E i \in 1 .. 3 : Gap(i) > 0) => ret[1] = FALSE
        /\ arg.a = arg.b => ret[1] = TRUE

\* C18, amended: axis-aligned boxes test FALSE when on some world axis the
\* gap exceeds EPSILON times the sum of the three half widths of one of the
\* boxes; they test TRUE when on every axis the gap is at most EPSILON times
\* the smaller of the two half widths on that axis (overlapping, touching
\* and identical boxes included).
C18_GapBeyondEpsilonSeparates ==
    (AxisAligned /\ Len(ret) >= 1) =>
        /\ (\E i \in 1 .. 3 :
               Gap(i) > Min2(SumOf(arg.a.half_widths), SumOf(arg.b.half_widths))
                            \div EpsDen)
           => ret[1] = FALSE
        /\ (\A i \in 1 .. 3 :
               Gap(i) <= Min2(arg.a.half_widths[i], arg.b.half_widths[i]) \div EpsDen)
           => ret[1] = TRUE
        /\ arg.a = arg.b => ret[1] = TRUE

\* Two large axis-aligned boxes one lattice step apart were reported as
\* intersecting.
C18_Witness ==
    /\ AxisAligned
    /\ Gap(1) = 1
    /\ ret = <<TRUE>>

\* Every work unit there is: with the dispatcher, in the pending queue, in
\* the channel or with a worker.
AllUnits ==
    {processed_work[i] : i \in 1 .. Len(processed_work)}
        \cup {pending[i] : i \in 1 .. Len(pending)}
        \cup {channel[i] : i \in 1 .. Len(channel)}
        \cup {work[w][1] : w \in {v \in Workers : work[v] # <<>>}}

\* C19: for each unit count 1, 2, 4 and 8, every point of world space is
\* inside the bounds of at least one of the units new() creates.
C19_BoundsTileSpace ==
    (arg.op = "locate" /\ ret # <<>>) => ret[1] # {}

\* What holds of the tables: the ones for 2, 4 and 8 units tile space, and
\* the one unit of the table for 1 holds the points without a positive
\* coordinate only.
BoundsTileSpaceForTwoOrMore ==
    (arg.op = "locate" /\ ret # <<>>) =>
        IF arg.n = 1
        THEN (ret[1] # {} <=> \A i \in 1 .. 3 : arg.point[i] <= 0)
        ELSE ret[1] # {}

\* The work units, wherever they are, are the units of new() with the
\* bounds new() gave them: each unit once or lost with a dead worker.
BoundsNeverChange ==
    \A unit \in AllUnits :
        \E i \in UnitIds : unit.bounds = UnitBounds(NUM_WORK_UNITS)[i]

\* C20: a tick starts clean and its result comes from its own snapshot.
\* Every unit in the pending queue has no hits and an empty grid; as long
\* as no unit has been merged in the running update the aggregate set is
\* empty; and whatever is in the aggregate set or in a unit's hits is a
\* pair the unit detects from the snapshot the workers read, so a pair of
\* an earlier tick is there only if it is detected again.
C20_NothingCarriedOver ==
    /\ \A i \in 1 .. Len(pending) :
          pending[i].collisions = {} /\ pending[i].grid = <<>>
    /\ (\A u \in UnitIds : stat[u].merged = 0) => collisions = {}
    /\ collisions # {} => collisions \subseteq ExpectedCollisions(volumes)
    /\ \A unit \in {other \in AllUnits : other.collisions # {}} :
          unit.collisions \subseteq HitsFor(UnitId(unit), volumes)

\* The tick before found a pair; the next update, on a snapshot without
\* that pair, has cleared the aggregate set and is about to publish.
C20_Witness ==
    /\ disp_pc = "write_lock"
    /\ ExpectedCollisions(volumes) # {}
    /\ ExpectedCollisions(bvh) = {}
    /\ bvh # <<>>
    /\ collisions = {}
    /\ \A i \in 1 .. Len(processed_work) :
          processed_work[i].collisions = {} /\ processed_work[i].grid = <<>>

\* C21: the channel never holds more units than its bound, a worker that
\* is about to send finds room in it (send does not block), and every unit
\* that was sent is either still in the channel or was received and merged.
C21_SendNeverBlocks ==
    /\ Len(channel) <= NUM_WORKERS
    /\ \A w \in Workers : wpc[w] = "send" => Len(channel) < ChannelBound
    /\ \A u \in UnitIds :
          stat[u].sent = stat[u].merged + Cardinality(InSeq(channel, u))

\* All the units of the tick are in the channel at once while a worker has
\* gone back to the pending queue.
C21_Witness ==
    /\ Len(channel) = NUM_WORK_UNITS
    /\ \E w \in Workers : wpc[w] = "waiting"
    /\ disp_pc = "recv"

\* C22: units are in the pending queue, or under a worker's broadphase,
\* only when the shared list holds the snapshot of the running update and
\* the unit carries the cell_size computed from it; and the queue is filled
\* in one step, from empty to all N units, by the holder of the mutex.
C22_PublishedBeforePending ==
    /\ [](pending # <<>> =>
            /\ volumes = bvh
            /\ \A i \in 1 .. Len(pending) : pending[i].cell_size = Longest(bvh, 1, 0))
    /\ [](\A w \in Workers :
             wpc[w] = "broadphase" =>
                 /\ volumes = bvh
                 /\ ~ rw_writer
                 /\ work[w][1].cell_size = Longest(bvh, 1, 0))
    /\ [][Len(pending') > Len(pending) =>
             /\ pending = <<>>
             /\ Len(pending') = NUM_WORK_UNITS
             /\ mutex = "dispatcher"]_vars

\* A worker runs broadphase on a unit with the cell_size of a snapshot of
\* spheres while the other unit is still pending.
C22_Witness ==
    /\ \E w \in Workers : wpc[w] = "broadphase" /\ work[w][1].cell_size = 4
    /\ pending # <<>>
    /\ Len(volumes) = 3

\* Worker w holds the mutex of the pending queue.
HoldsMutex(w) == mutex = "worker" /\ wpc[w] = "locked"

\* C23 as stated: a worker inside do_broadphase or do_narrowphase holds
\* neither the mutex of the pending queue nor a lock on the snapshot.
C23_NoLockWhileComputing ==
    \A w \in Workers :
        wpc[w] \in {"broadphase", "narrowphase"} =>
            ~ HoldsMutex(w) /\ w \notin rw_readers

\* C23, amended: a worker inside do_broadphase holds a read lock on the
\* snapshot, which keeps the writer out, and not the mutex; inside
\* do_narrowphase it holds no lock at all; a worker holds the read lock
\* nowhere else.
C23_ReadLockInBroadphaseOnly ==
    \A w \in Workers :
        /\ wpc[w] = "broadphase" => w \in rw_readers /\ ~ rw_writer /\ ~ HoldsMutex(w)
        /\ wpc[w] = "narrowphase" => w \notin rw_readers /\ ~ HoldsMutex(w)
        /\ w \in rw_readers => wpc[w] = "broadphase"

\* One worker is in do_broadphase, holding the read lock, while another is
\* in do_narrowphase.
C23_Witness ==
    \E w \in Workers, v \in Workers :
        /\ wpc[w] = "broadphase"
        /\ wpc[v] = "narrowphase"
        /\ rw_readers = {w}

\* C24: as long as a unit that a worker popped has not been sent back,
\* update has not returned, however many of the other units are back: the
\* dispatcher is before or inside its receive loop (or has panicked there).
C24_NoReturnWithoutEveryUnit ==
    \A u \in UnitIds :
        stat[u].popped > stat[u].sent =>
            /\ disp_pc \in {"notify", "recv", "panicked"}
            /\ disp_pc = "recv" => StillWaiting(processed_work)

\* All units but one are back and merged, the worker that popped the last
\* one is dead, and the dispatcher is still in its receive loop.
C24_Witness ==
    /\ disp_pc = "recv"
    /\ Len(processed_work) = NUM_WORK_UNITS - 1
    /\ channel = <<>>
    /\ pending = <<>>
    /\ \E w \in Workers : wpc[w] = "dead"
    /\ \E u \in UnitIds : stat[u].popped = 1 /\ stat[u].sent = 0

\* The largest side of an AABB of snapshot s, each side being the f32
\* difference max - min, and 0 if there is none.
MaxExtent(s) ==
    LET sides == {0} \cup {F32Sub(s[i].aabb.max[axis], s[i].aabb.min[axis]) :
                              i \in 1 .. Len(s), axis \in 1 .. 3}
    IN  CHOOSE m \in sides : \A side \in sides : side <= m

\* C25: every unit that update hands out, and so the unit a worker runs
\* do_broadphase on, carries as cell_size the maximum over all volumes of
\* the snapshot and the three axes of aabb.max - aabb.min, which is 0 for
\* the empty snapshot; all the units carry the same cell_size.
C25_CellSizeIsMaxExtent ==
    ret # <<>> =>
        /\ \A i \in 1 .. arg.n : ret.work[i].cell_size = MaxExtent(arg.volumes)
        /\ \A i, j \in 1 .. arg.n : ret.work[i].cell_size = ret.work[j].cell_size
        /\ arg.volumes = <<>> => \A i \in 1 .. arg.n : ret.work[i].cell_size = 0

\* do_broadphase has run on a unit of eight for a snapshot whose longest
\* side, 8, is the z side of its second volume.
C25_Witness ==
    /\ ret # <<>>
    /\ ret.pc = "narrowphase"
    /\ arg.n = 8
    /\ arg.volumes = <<VolE9, VolE10>>
    /\ ret.work[ret.unit].cell_size = 8

\* The condition of the debug assertion of do_broadphase.
SpansFewCells(min, max) ==
    /\ max[1] - min[1] <= 1
    /\ max[2] - min[2] <= 1
    /\ max[3] - min[3] <= 1

\* The volumes do_broadphase places for a unit: those that pass the test
\* against the unit's bounds.
PlacedVolumes(unit, s) == {i \in 1 .. Len(s) : TestAABB(s[i].aabb, unit.bounds)}

\* The largest side of an AABB of snapshot s in exact arithmetic.
ExactMaxExtent(s) ==
    LET sides == {0} \cup {s[i].aabb.max[axis] - s[i].aabb.min[axis] :
                              i \in 1 .. Len(s), axis \in 1 .. 3}
    IN  CHOOSE m \in sides : \A side \in sides : side <= m

\* C26: with cell_size the maximum extent and cell(p) = floor(p / cell_size),
\* the min and max grid cells of every volume do_broadphase places differ
\* by at most 1 on each axis: the debug assertion 'AABB spans too many grid
\* cells' never fails.
C26_AssertionNeverFails ==
    (ret # <<>> /\ ret.pc = "narrowphase") =>
        \A i \in PlacedVolumes(ret.work[ret.unit], arg.volumes) :
            SpansFewCells(WorldToGrid(ret.work[ret.unit], arg.volumes[i].aabb.min),
                          WorldToGrid(ret.work[ret.unit], arg.volumes[i].aabb.max))

\* The same for the snapshots whose longest side max - min is an f32, so
\* that the subtraction that gives cell_size does not round.
AssertionHoldsWithoutRounding ==
    (ret # <<>> /\ ret.pc = "narrowphase"
        /\ MaxExtent(arg.volumes) = ExactMaxExtent(arg.volumes)) =>
        \A i \in PlacedVolumes(ret.work[ret.unit], arg.volumes) :
            SpansFewCells(WorldToGrid(ret.work[ret.unit], arg.volumes[i].aabb.min),
                          WorldToGrid(ret.work[ret.unit], arg.volumes[i].aabb.max))

\* {min.x, max.x} x {min.y, max.y} x {min.z, max.z}
CornerCells(min, max) ==
    {GridCell(x, y, z) : x \in {min[1], max[1]}, y \in {min[2], max[2]},
                         z \in {min[3], max[3]}}

\* C27: for a volume whose min and max cells differ by at most 1 on each
\* axis, do_broadphase visits exactly the cells of
\* {min.x, max.x} x {min.y, max.y} x {min.z, max.z}, each distinct cell
\* once: 1, 2, 4 or 8 cells, whichever of the eight combinations of
\* per-axis overlap holds; the volume is pushed once into each of them.
C27_VisitsCornerCellsOnce ==
    (ret # <<>> /\ SpansFewCells(arg.min, arg.max)) =>
        /\ {ret.cells[k] : k \in 1 .. Len(ret.cells)} = CornerCells(arg.min, arg.max)
        /\ \A j, k \in 1 .. Len(ret.cells) : ret.cells[j] = ret.cells[k] => j = k
        /\ Len(ret.cells) \in {1, 2, 4, 8}
        /\ DOMAIN ret.grid = CornerCells(arg.min, arg.max)
        /\ \A c \in DOMAIN ret.grid : ret.grid[c] = <<1>>

\* A volume that overlaps the next cell on y and z but not on x: four cells.
C27_Witness ==
    /\ ret # <<>>
    /\ arg.min = GridCell(-1, -1, 0)
    /\ arg.max = GridCell(-1, 0, 1)
    /\ Len(ret.cells) = 4

\* How often the pair of volumes a and b, either way round, is in a
\* candidate list.
CandidateCount(candidates, a, b) ==
    Cardinality({k \in 1 .. Len(candidates) :
                    candidates[k] = <<a, b>> \/ candidates[k] = <<b, a>>})

\* The cells of a grid that hold both volumes.
SharedCells(grid, a, b) ==
    {c \in DOMAIN grid : /\ \E k \in 1 .. Len(grid[c]) : grid[c][k] = a
                         /\ \E k \in 1 .. Len(grid[c]) : grid[c][k] = b}

\* C28: when do_broadphase has placed the volumes of a unit, its candidate
\* list holds every two distinct placed volumes once for each grid cell
\* that holds both, so k times for a pair sharing k cells and not at all
\* for a pair sharing none; it holds nothing else.
C28_OneCandidatePerSharedCell ==
    (ret # <<>> /\ ret.pc = "narrowphase") =>
        /\ \A a, b \in PlacedVolumes(ret.work[ret.unit], arg.volumes) :
               a # b => CandidateCount(ret.candidate_collisions, a, b)
                            = Cardinality(SharedCells(ret.grid, a, b))
        /\ \A k \in 1 .. Len(ret.candidate_collisions) :
               /\ ret.candidate_collisions[k][1] # ret.candidate_collisions[k][2]
               /\ ret.candidate_collisions[k][1]
                      \in PlacedVolumes(ret.work[ret.unit], arg.volumes)
               /\ ret.candidate_collisions[k][2]
                      \in PlacedVolumes(ret.work[ret.unit], arg.volumes)

\* The unit x >= 0 of two, four volumes placed: E13 and E1 share eight
\* cells, E1 and E12 two, E12 and E11 one, E13 and E11 one, and with three
\* volumes in a cell the last one is paired with both others.
C28_Witness ==
    /\ ret # <<>>
    /\ ret.pc = "narrowphase"
    /\ arg.n = 2
    /\ ret.unit = 2
    /\ arg.volumes = <<VolE13, VolE1, VolE12, VolE11>>
    /\ CandidateCount(ret.candidate_collisions, 1, 2) = 8
    /\ CandidateCount(ret.candidate_collisions, 2, 3) = 2
    /\ CandidateCount(ret.candidate_collisions, 3, 4) = 1
    /\ \E c \in DOMAIN ret.grid : Len(ret.grid[c]) >= 3

\* The volumes of snapshot s that are the subject of a pair of entities.
VolumesOf(s, pair) == {i \in 1 .. Len(s) : s[i].entity = pair[1] \/ s[i].entity = pair[2]}

\* C29: a volume whose AABB does not overlap a unit's bounds is never
\* inserted into the grid of that unit and is in no candidate pair and in
\* no hit of that unit.
C29_OutsideVolumesIgnored ==
    ret # <<>> =>
        /\ ret.pc = "narrowphase" =>
               \A i \in (1 .. Len(arg.volumes))
                            \ PlacedVolumes(ret.work[ret.unit], arg.volumes) :
                   /\ \A c \in DOMAIN ret.grid :
                          \A k \in 1 .. Len(ret.grid[c]) : ret.grid[c][k] # i
                   /\ \A k \in 1 .. Len(ret.candidate_collisions) :
                          /\ ret.candidate_collisions[k][1] # i
                          /\ ret.candidate_collisions[k][2] # i
        /\ \A u \in 1 .. Len(ret.hits) :
               \A pair \in ret.hits[u] :
                   VolumesOf(arg.volumes, pair) \subseteq PlacedVolumes(ret.work[u], arg.volumes)

\* Both units of two have been through the narrowphase: E4 and E5 collide
\* in the unit x <= 0, and the unit x >= 0, which E5 does not reach, has
\* found nothing.
C29_Witness ==
    /\ ret # <<>>
    /\ ret.pc = "returned"
    /\ arg.n = 2
    /\ arg.volumes = <<VolE4, VolE5>>
    /\ 2 \notin PlacedVolumes(ret.work[2], arg.volumes)
    /\ ret.hits[1] # {}
    /\ ret.hits[2] = {}

\* Two volumes of snapshot s that collide: their AABBs overlap and the
\* exact test of their colliders, which exists for their shapes, is true.
TrulyColliding(s, a, b) ==
    /\ a # b
    /\ TestAABB(s[a].aabb, s[b].aabb)
    /\ Supported(s[a].collider, s[b].collider)
    /\ BoundVolumeTest(s[a], s[b])

\* The pair of the entities of volumes a and b is in a result, one way
\* round or the other.
Reported(result, s, a, b) ==
    \/ <<s[a].entity, s[b].entity>> \in result
    \/ <<s[b].entity, s[a].entity>> \in result

\* C30: for a snapshot with distinct entity ids, a positive cell_size and
\* eight units, every two volumes whose AABBs overlap and whose exact test
\* is true are in the result of update, one way round: neither the bounds
\* filter of the units nor the grid loses a colliding pair.
C30_NoCollidingPairMissed ==
    (ret # <<>> /\ ret.pc = "returned" /\ arg.n = 8 /\ ret.work[1].cell_size > 0) =>
        \A a, b \in 1 .. Len(arg.volumes) :
            TrulyColliding(arg.volumes, a, b) =>
                Reported(ret.collisions, arg.volumes, a, b)

\* The same for two, four and eight units and the snapshots whose longest
\* side is computed without rounding.
NoCollidingPairMissedWithoutRounding ==
    (ret # <<>> /\ ret.pc = "returned" /\ arg.n \in {2, 4, 8}
        /\ MaxExtent(arg.volumes) = ExactMaxExtent(arg.volumes)) =>
        \A a, b \in 1 .. Len(arg.volumes) :
            TrulyColliding(arg.volumes, a, b) =>
                Reported(ret.collisions, arg.volumes, a, b)

\* Colliding pairs are reported where nothing rounds: two hits from four
\* spheres on eight units.
CollidingPairsReported ==
    /\ ret # <<>>
    /\ ret.pc = "returned"
    /\ arg.n = 8
    /\ arg.volumes = <<VolE1, VolE6, VolE2, VolE7>>
    /\ TrulyColliding(arg.volumes, 1, 3)
    /\ TrulyColliding(arg.volumes, 1, 4)
    /\ Reported(ret.collisions, arg.volumes, 1, 3)
    /\ Reported(ret.collisions, arg.volumes, 1, 4)

\* How often a pair of volumes occurs in a list of pairs, this way round.
PairCount(pairs, pair) == Cardinality({k \in 1 .. Len(pairs) : pairs[k] = pair})

\* C31: do_narrowphase does not call the exact test for a candidate whose
\* entity pair is already in the unit's collisions: in each unit a pair
\* that collides is tested exactly once however often it is listed, a pair
\* that does not collide is tested once per listing, and the collisions
\* only grow: every pair that tested true is in them at the end.
C31_TestedOnceWhenColliding ==
    ret # <<>> =>
        \A u \in 1 .. Len(ret.tested) :
            /\ \A k \in 1 .. Len(ret.drained[u]) :
                   LET pair == ret.drained[u][k]
                   IN  PairCount(ret.tested[u], pair) =
                           IF BoundVolumeTest(arg.volumes[pair[1]], arg.volumes[pair[2]])
                           THEN 1
                           ELSE PairCount(ret.drained[u], pair)
            /\ \A k \in 1 .. Len(ret.tested[u]) :
                   /\ PairCount(ret.drained[u], ret.tested[u][k]) >= 1
                   /\ BoundVolumeTest(arg.volumes[ret.tested[u][k][1]],
                                      arg.volumes[ret.tested[u][k][2]])
                          => <<arg.volumes[ret.tested[u][k][1]].entity,
                               arg.volumes[ret.tested[u][k][2]].entity>> \in ret.hits[u]

\* The unit x >= 0 of two for the spheres E1, E2, E3: E2 and E1 collide,
\* are listed four times and tested once; E3 and E1 are tangent, listed four
\* times and tested four times.
C31_Witness ==
    /\ ret # <<>>
    /\ arg.n = 2
    /\ arg.volumes = <<VolE1, VolE2, VolE3>>
    /\ Len(ret.tested) = 2
    /\ PairCount(ret.drained[2], <<2, 1>>) = 4
    /\ PairCount(ret.tested[2], <<2, 1>>) = 1
    /\ PairCount(ret.drained[2], <<3, 1>>) = 4
    /\ PairCount(ret.tested[2], <<3, 1>>) = 4

\* C32: when do_broadphase is over the unit's grid is empty, so that no
\* unit anywhere carries a grid, and every bucket in a worker's cell cache
\* is empty at all times; a bucket popped from the cache for a new cell
\* brings no volume of an earlier unit or tick with it: the candidates of a
\* worker are those of an empty grid and an empty cache.
C32_CachedBucketsEmpty ==
    /\ \A w \in Workers : \A k \in 1 .. Len(cell_cache[w]) : cell_cache[w][k] = <<>>
    /\ \A unit \in AllUnits : unit.grid = <<>>
    /\ \A w \in Workers :
           (wpc[w] = "narrowphase" /\ cell_cache[w] # <<>>) =>
               candidate_collisions[w] =
                   DoBroadphase(work[w][1], <<>>, <<>>, volumes).candidate_collisions

\* A worker whose cache holds the buckets of an earlier unit is in
\* do_broadphase on a unit that places two volumes.
C32_Witness ==
    \E w \in Workers :
        /\ wpc[w] = "broadphase"
        /\ Len(cell_cache[w]) >= 8
        /\ Cardinality(PlacedVolumes(work[w][1], volumes)) >= 2

\* C33: the candidate buffer of a worker is empty whenever the worker is
\* not between do_broadphase and do_narrowphase, and so whenever it starts
\* do_broadphase on a unit; what do_narrowphase is about to drain is what
\* do_broadphase built for the unit in hand from the current snapshot,
\* whatever the worker processed before.
C33_CandidatesOfThisUnitOnly ==
    \A w \in Workers :
        /\ wpc[w] # "narrowphase" => candidate_collisions[w] = <<>>
        /\ (wpc[w] = "narrowphase" /\ candidate_collisions[w] # <<>>) =>
               /\ volumes = bvh
               /\ candidate_collisions[w] =
                      BroadphaseLoop([grid |-> <<>>, candidate_collisions |-> <<>>,
                                      cell_cache |-> <<>>],
                                     work[w][1], volumes, 1).candidate_collisions

\* A worker starts do_broadphase on the second unit of a tick after it took
\* the first one through do_narrowphase with candidates: the other worker
\* has never placed a volume.
C33_Witness ==
    \E w, v \in Workers :
        /\ w # v
        /\ wpc[w] = "broadphase"
        /\ candidate_collisions[w] = <<>>
        /\ cell_cache[w] # <<>>
        /\ cell_cache[v] = <<>>
        /\ volumes = <<VolE7, VolE1>>
        /\ \E u \in UnitIds : stat[u].narrowphase = 1

\* C34: a worker takes a unit only while it holds the mutex of the pending
\* queue and the queue is not empty; the pop takes exactly one unit, the
\* last one; a worker with a unit keeps that unit until it sends it (or
\* dies), and nothing but a pop shortens the queue.  Each worker holds at
\* most one unit at any time.
C34_OneUnitPerWorker ==
    /\ [](\A w \in Workers :
              /\ Len(work[w]) <= 1
              /\ work[w] # <<>> <=> wpc[w] \in {"received", "broadphase",
                                                "narrowphase", "send"})
    /\ [][\A w \in Workers :
              /\ (work[w] = <<>> /\ work'[w] # <<>>) =>
                     /\ HoldsMutex(w)
                     /\ pending # <<>>
                     /\ work'[w] = <<pending[Len(pending)]>>
                     /\ pending' = SubSeq(pending, 1, Len(pending) - 1)
              /\ (work[w] # <<>> /\ work'[w] # <<>>) =>
                     UnitId(work'[w][1]) = UnitId(work[w][1])
              /\ (work[w] # <<>> /\ work'[w] = <<>>) =>
                     \/ channel' = Append(channel, work[w][1])
                     \/ wpc'[w] = "dead"]_vars
    /\ [][Len(pending') < Len(pending) =>
              \E w \in Workers : work[w] = <<>> /\ work'[w] # <<>>]_vars

\* A worker has the first unit of a tick in hand, the second one is still
\* in the queue and the other worker holds the mutex to take it.
C34_Witness ==
    \E w, v \in Workers :
        /\ work[w] # <<>>
        /\ Len(pending) = NUM_WORK_UNITS - 1
        /\ HoldsMutex(v)
        /\ work[v] = <<>>

\* C35: in every manager state reached through register and clone, every
\* handler id in some entity's list has a stored handler, so that
\* process_collisions never fails the lookup of a handler.
C35_EveryListedHandlerStored ==
    /\ \A e \in DOMAIN entity_callbacks :
           \A k \in 1 .. Len(entity_callbacks[e]) :
               entity_callbacks[e][k] \in DOMAIN callbacks
    /\ ret # <<"panic">>

\* C36: whenever do_broadphase maps the corners of a volume to grid cells
\* the divisor cell_size is strictly positive: for every snapshot that is
\* not empty, one whose volumes all have no extent included, a unit that
\* places a volume carries a positive cell_size and world_to_grid never
\* divides by zero.
C36_CellSizePositive ==
    (ret # <<>> /\ PlacedVolumes(ret.work[ret.unit], arg.volumes) # {}) =>
        /\ ret.work[ret.unit].cell_size > 0
        /\ ret.pc # "divided_by_zero"

\* The same for the snapshots in which some volume has an extent.
CellSizePositiveWithExtent ==
    (ret # <<>> /\ PlacedVolumes(ret.work[ret.unit], arg.volumes) # {}
        /\ ExactMaxExtent(arg.volumes) > 0) =>
        /\ ret.work[ret.unit].cell_size > 0
        /\ ret.pc # "divided_by_zero"

\* A run without the TimeMark fields of its units.
Untimed(run) ==
    [run EXCEPT !.work = [i \in DOMAIN run.work |->
                             [bounds |-> run.work[i].bounds,
                              collisions |-> run.work[i].collisions,
                              grid |-> run.work[i].grid,
                              cell_size |-> run.work[i].cell_size]]]

SnapshotIndex(s, entity) == CHOOSE i \in 1 .. Len(s) : s[i].entity = entity

\* Every pair of the list has its second volume strictly before its first
\* in the snapshot.
EarlierSecond(candidates) ==
    \A k \in 1 .. Len(candidates) : candidates[k][2] < candidates[k][1]

\* C38: in every candidate pair (v, w) recorded by do_broadphase, w precedes
\* v strictly in snapshot order, for the unit in hand and for every unit
\* done before; so no volume is paired with itself, no unit records a pair
\* the other way round than another unit, and every hit of a unit and of
\* the merged set is (later entity, earlier entity).
C38_CandidatesLaterThenEarlier ==
    ret # <<>> =>
        /\ EarlierSecond(ret.candidate_collisions)
        /\ \A u \in 1 .. Len(ret.drained) :
               /\ EarlierSecond(ret.drained[u])
               /\ \A k \in 1 .. Len(ret.drained[u]) :
                      \A u2 \in 1 .. Len(ret.drained) :
                          \A k2 \in 1 .. Len(ret.drained[u2]) :
                              ret.drained[u2][k2] # <<ret.drained[u][k][2],
                                                      ret.drained[u][k][1]>>
        /\ \A u \in 1 .. Len(ret.hits) :
               \A hit \in ret.hits[u] :
                   SnapshotIndex(arg.volumes, hit[2])
                       < SnapshotIndex(arg.volumes, hit[1])
        /\ \A hit \in ret.collisions :
               /\ hit[1] \in {arg.volumes[i].entity : i \in 1 .. Len(arg.volumes)}
               /\ hit[2] \in {arg.volumes[i].entity : i \in 1 .. Len(arg.volumes)}
               /\ SnapshotIndex(arg.volumes, hit[2])
                      < SnapshotIndex(arg.volumes, hit[1])

\* Two units have recorded the same two volumes, and the pair is a hit; the
\* later volume of the pair has the smaller entity id.
C38_Witness ==
    /\ ret # <<>>
    /\ ret.pc = "returned"
    /\ \E u \in 1 .. Len(ret.drained), u2 \in 1 .. Len(ret.drained) :
           /\ u # u2
           /\ \E k \in 1 .. Len(ret.drained[u]), k2 \in 1 .. Len(ret.drained[u2]) :
                  /\ ret.drained[u][k] = ret.drained[u2][k2]
                  /\ <<arg.volumes[ret.drained[u][k][1]].entity,
                       arg.volumes[ret.drained[u][k][2]].entity>> \in ret.collisions
                  /\ arg.volumes[ret.drained[u][k][1]].entity
                         < arg.volumes[ret.drained[u][k][2]].entity
====
